---- MODULE Spec2Model ----
(***************************************************************************)
(* Model of the PhazeAI IDE sidecar (src/sidecar/server.py): a JSON-RPC    *)
(* 2.0 server over stdio that owns a TF-IDF code index.                    *)
(*                                                                         *)
(* Python values that cross the protocol (requests, params, responses) are *)
(* modelled as tagged JSON values; text is modelled as TLA+ strings that   *)
(* are read character by character with SubSeq.                            *)
(***************************************************************************)
EXTENDS Integers, Sequences, FiniteSets, TLC

VARIABLES code_index, line, output, pc

vars == <<code_index, line, output, pc>>

(***************************************************************************)
(* Bounds of the model                                                     *)
(***************************************************************************)
\* the corpus is capped at this many documents (build_index is not taken
\* when it would grow the corpus past the cap)
MaxDocs == 2
\* the largest top_k that TfidfIndex.search is called with
MaxK == 2
\* the largest length of the texts given to tokenize and get_snippet
MaxLen == 3

(***************************************************************************)
(* Strings                                                                 *)
(***************************************************************************)
CharAt(s, i) == SubSeq(s, i, i)

LowerAlphabet == "abcdefghijklmnopqrstuvwxyz"
UpperAlphabet == "ABCDEFGHIJKLMNOPQRSTUVWXYZ"
DigitChars == {"0", "1", "2", "3", "4", "5", "6", "7", "8", "9"}
LowerChars == {CharAt(LowerAlphabet, i) : i \in 1..26}
UpperChars == {CharAt(UpperAlphabet, i) : i \in 1..26}

\* str.lower() on one character
LowerChar(c) ==
    IF c \in UpperChars
    THEN CharAt(LowerAlphabet, CHOOSE i \in 1..26 : CharAt(UpperAlphabet, i) = c)
    ELSE c

\* str.lower()
RECURSIVE Lower(_)
Lower(s) == IF s = "" THEN "" ELSE LowerChar(Head(s)) \o Lower(Tail(s))

\* the regex class \w
IsWordChar(c) == c \in LowerChars \cup UpperChars \cup DigitChars \cup {"_"}
\* the characters str.strip() removes
IsSpace(c) == c \in {" ", "\t", "\n", "\r"}

RECURSIVE LStrip(_)
LStrip(s) == IF s # "" /\ IsSpace(Head(s)) THEN LStrip(Tail(s)) ELSE s

RECURSIVE RStrip(_)
RStrip(s) ==
    IF s # "" /\ IsSpace(CharAt(s, Len(s)))
    THEN RStrip(SubSeq(s, 1, Len(s) - 1))
    ELSE s

\* str.strip()
Strip(s) == RStrip(LStrip(s))

\* str.startswith(prefix)
StartsWith(s, prefix) ==
    Len(s) >= Len(prefix) /\ SubSeq(s, 1, Len(prefix)) = prefix

\* the index in s of the k-th occurrence of the character sep; 0 before the
\* first one and Len(s) + 1 after the last one
NthIndex(s, sep, k) ==
    IF k = 0 THEN 0
    ELSE IF k > Cardinality({i \in 1..Len(s) : CharAt(s, i) = sep}) THEN Len(s) + 1
    ELSE CHOOSE i \in 1..Len(s) :
             /\ CharAt(s, i) = sep
             /\ Cardinality({j \in 1..(i - 1) : CharAt(s, j) = sep}) = k - 1

\* str.split(sep) for a one-character separator
Split(s, sep) ==
    [k \in 1..(Cardinality({i \in 1..Len(s) : CharAt(s, i) = sep}) + 1) |->
        SubSeq(s, NthIndex(s, sep, k - 1) + 1, NthIndex(s, sep, k) - 1)]

\* sep.join(parts)
RECURSIVE Join(_, _)
Join(parts, sep) ==
    IF parts = <<>> THEN ""
    ELSE IF Len(parts) = 1 THEN parts[1]
    ELSE parts[1] \o sep \o Join(Tail(parts), sep)

\* str(n) for an integer
DigitString == "0123456789"
RECURSIVE NatToStr(_)
NatToStr(n) ==
    IF n < 10 THEN CharAt(DigitString, n + 1)
    ELSE NatToStr(n \div 10) \o CharAt(DigitString, (n % 10) + 1)

IntToStr(n) == IF n < 0 THEN "-" \o NatToStr(-n) ELSE NatToStr(n)

(***************************************************************************)
(* JSON values (what json.loads returns and json.dumps accepts)            *)
(***************************************************************************)
JNull == [t |-> "null"]
JBool(b) == [t |-> "bool", b |-> b]
JNum(n) == [t |-> "num", n |-> n]
JStr(s) == [t |-> "str", s |-> s]
JArr(a) == [t |-> "arr", a |-> a]
JObj(o) == [t |-> "obj", o |-> o]
\* a float with four decimal places, held as the integer 10000 * value
JFloat(m) == [t |-> "float", m |-> m]

\* the empty dict {}
EmptyDict == [k \in {} |-> JNull]
JEmptyObj == JObj(EmptyDict)

\* type(v).__name__ as it appears in exception messages
PyTypeName(v) ==
    CASE v.t = "null" -> "NoneType"
      [] v.t = "bool" -> "bool"
      [] v.t = "num" -> "int"
      [] v.t = "float" -> "float"
      [] v.t = "str" -> "str"
      [] v.t = "arr" -> "list"
      [] v.t = "obj" -> "dict"

\* bool(v): Python truthiness
Truthy(v) ==
    CASE v.t = "null" -> FALSE
      [] v.t = "bool" -> v.b
      [] v.t = "num" -> v.n # 0
      [] v.t = "float" -> v.m # 0
      [] v.t = "str" -> v.s # ""
      [] v.t = "arr" -> v.a # <<>>
      [] v.t = "obj" -> DOMAIN v.o # {}

\* does the value have a .get method (is it a dict)
HasGet(v) == v.t = "obj"

\* d.get(key, default)
GetDefault(d, key, default) == IF key \in DOMAIN d.o THEN d.o[key] ELSE default

\* d.get(key)
Get(d, key) == GetDefault(d, key, JNull)

\* str(v) / f"{v}" for the values a method field can hold
RECURSIVE PyRepr(_)
RECURSIVE PyReprList(_)
PyReprList(a) ==
    IF a = <<>> THEN ""
    ELSE IF Len(a) = 1 THEN PyRepr(a[1])
    ELSE PyRepr(a[1]) \o ", " \o PyReprList(Tail(a))

PyRepr(v) ==
    CASE v.t = "null" -> "None"
      [] v.t = "bool" -> IF v.b THEN "True" ELSE "False"
      [] v.t = "num" -> IntToStr(v.n)
      [] v.t = "str" -> "'" \o v.s \o "'"
      [] v.t = "arr" -> "[" \o PyReprList(v.a) \o "]"
      [] OTHER -> "{...}"

PyStr(v) == IF v.t = "str" THEN v.s ELSE PyRepr(v)

(***************************************************************************)
(* Outcome of a Python call: a returned value or a raised exception,       *)
(* together with the CodeIndex the call leaves behind                      *)
(***************************************************************************)
Return(v, ci) == [exc |-> "", msg |-> "", value |-> v, ci |-> ci]
Raise(cls, msg, ci) == [exc |-> cls, msg |-> msg, value |-> JNull, ci |-> ci]
Raised(r) == r.exc # ""

\* AttributeError raised by v.attr when v has no such attribute
NoAttribute(v, attr) ==
    "'" \o PyTypeName(v) \o "' object has no attribute '" \o attr \o "'"

(***************************************************************************)
(* TfidfIndex                                                              *)
(***************************************************************************)
\* math.log and the float arithmetic of the scores are modelled in fixed
\* point: an idf is held as the integer nearest to 1000 * ln(x)
LnTable == <<0, 693, 1099, 1386, 1609, 1792, 1946, 2079, 2197, 2303>>

\* log(doc_count / term_doc_count) for 1 <= term_doc_count <= doc_count
Log(doc_count, term_doc_count) == LnTable[doc_count] - LnTable[term_doc_count]

\* floor of the square root (math.sqrt in fixed point), by Newton's iteration
RECURSIVE SqrtIter(_, _)
SqrtIter(n, x) ==
    LET y == (x + n \div x) \div 2
    IN IF y >= x THEN x ELSE SqrtIter(n, y)

Sqrt(n) == IF n = 0 THEN 0 ELSE SqrtIter(n, n)

\* the first `digits` decimal digits of num / den by long division, as the
\* integer floor(10^digits * num / den)
RECURSIVE Divide(_, _, _)
Divide(num, den, digits) ==
    IF digits = 0 THEN num \div den
    ELSE (num \div den) * (10 ^ digits) + Divide((num % den) * 10, den, digits - 1)

\* a new TfidfIndex()
EmptyMap == [k \in {} |-> 0]
NewTfidfIndex ==
    [documents |-> <<>>, term_doc_freq |-> EmptyMap,
     doc_term_freq |-> <<>>, idf_cache |-> EmptyMap]

\* re.findall(r'\b\w+\b', text): the maximal runs of word characters
RECURSIVE FindWords(_, _)
FindWords(s, cur) ==
    IF s = "" THEN (IF cur = "" THEN <<>> ELSE <<cur>>)
    ELSE IF IsWordChar(Head(s)) THEN FindWords(Tail(s), cur \o Head(s))
    ELSE (IF cur = "" THEN <<>> ELSE <<cur>>) \o FindWords(Tail(s), "")

\* tokenize as it would be without text.lower()
tokenize_keep_case(text) == FindWords(text, "")

tokenize(text) == FindWords(Lower(text), "")

compute_term_freq(tokens) ==
    [term \in {tokens[i] : i \in DOMAIN tokens} |->
        Cardinality({i \in DOMAIN tokens : tokens[i] = term})]

\* returns the idf and the index with its idf_cache as the call leaves it
compute_idf(index, term) ==
    IF term \in DOMAIN index.idf_cache
    THEN [idf |-> index.idf_cache[term], index |-> index]
    ELSE LET doc_count == Len(index.documents)
             term_doc_count == IF term \in DOMAIN index.term_doc_freq
                               THEN index.term_doc_freq[term] ELSE 0
             idf == IF term_doc_count = 0 THEN 0
                    ELSE Log(doc_count, term_doc_count)
         IN IF doc_count = 0
            THEN [idf |-> 0, index |-> index]
            ELSE [idf |-> idf,
                  index |-> [index EXCEPT !.idf_cache = (term :> idf) @@ @]]

\* the loop of compute_tfidf over the terms not yet visited
RECURSIVE TfidfLoop(_, _, _, _)
TfidfLoop(index, tf, todo, tfidf) ==
    IF todo = {} THEN [tfidf |-> tfidf, index |-> index]
    ELSE LET term == CHOOSE t \in todo : TRUE
             r == compute_idf(index, term)
         IN TfidfLoop(r.index, tf, todo \ {term},
                      (term :> tf[term] * r.idf) @@ tfidf)

\* returns the tf-idf vector and the index with the idfs it cached
compute_tfidf(index, tf) == TfidfLoop(index, tf, DOMAIN tf, EmptyMap)

RECURSIVE SumOver(_, _)
SumOver(f, S) ==
    IF S = {} THEN 0
    ELSE LET k == CHOOSE x \in S : TRUE IN f[k] + SumOver(f, S \ {k})

VecGet(vec, term) == IF term \in DOMAIN vec THEN vec[term] ELSE 0

\* mag1 * mag2 for the magnitudes whose squares are sq1 and sq2 (both
\* positive): the product of the floors r1, r2 of the two roots, corrected to
\* first order by the remainders sq - r * r, which Sqrt alone would drop
MagProduct(sq1, sq2) ==
    LET r1 == Sqrt(sq1)
        r2 == Sqrt(sq2)
    IN r1 * r2 + (r1 * (sq2 - r2 * r2)) \div (2 * r2)
               + (r2 * (sq1 - r1 * r1)) \div (2 * r1)

\* the score in units of 10^-6
cosine_similarity(vec1, vec2) ==
    LET terms == DOMAIN vec1 \cup DOMAIN vec2
        dot_product == SumOver([t \in terms |-> VecGet(vec1, t) * VecGet(vec2, t)], terms)
        sq1 == SumOver([t \in DOMAIN vec1 |-> vec1[t] * vec1[t]], DOMAIN vec1)
        sq2 == SumOver([t \in DOMAIN vec2 |-> vec2[t] * vec2[t]], DOMAIN vec2)
        mag1 == Sqrt(sq1)
        mag2 == Sqrt(sq2)
    IN IF mag1 = 0 \/ mag2 = 0 THEN 0
       ELSE Divide(dot_product, MagProduct(sq1, sq2), 6)

\* add_document as it would be if it replaced the corpus instead of extending it
add_document_replace(index, doc_id, text, metadata) ==
    LET tokens == tokenize(text)
        tf == compute_term_freq(tokens)
    IN [documents |-> <<[id |-> doc_id, text |-> text,
                         metadata |-> metadata, tokens |-> tokens]>>,
        term_doc_freq |-> [term \in DOMAIN tf |-> 1],
        doc_term_freq |-> <<tf>>,
        idf_cache |-> EmptyMap]

\* add_document as it would be if it added the frequency of each term
add_document_by_frequency(index, doc_id, text, metadata) ==
    LET tokens == tokenize(text)
        tf == compute_term_freq(tokens)
        old == index.term_doc_freq
    IN [documents |-> Append(index.documents,
                             [id |-> doc_id, text |-> text,
                              metadata |-> metadata, tokens |-> tokens]),
        term_doc_freq |->
            [term \in DOMAIN old \cup DOMAIN tf |->
                (IF term \in DOMAIN old THEN old[term] ELSE 0)
                + (IF term \in DOMAIN tf THEN tf[term] ELSE 0)],
        doc_term_freq |-> Append(index.doc_term_freq, tf),
        idf_cache |-> EmptyMap]

\* add_document as it would be without the idf_cache.clear() of line 117
add_document_stale_cache(index, doc_id, text, metadata) ==
    LET tokens == tokenize(text)
        tf == compute_term_freq(tokens)
        old == index.term_doc_freq
    IN [documents |-> Append(index.documents,
                             [id |-> doc_id, text |-> text,
                              metadata |-> metadata, tokens |-> tokens]),
        term_doc_freq |->
            [term \in DOMAIN old \cup DOMAIN tf |->
                (IF term \in DOMAIN old THEN old[term] ELSE 0)
                + (IF term \in DOMAIN tf THEN 1 ELSE 0)],
        doc_term_freq |-> Append(index.doc_term_freq, tf),
        idf_cache |-> index.idf_cache]

\* add_document as it would be if it dropped from the idf cache the terms of
\* the new document only
add_document_partial_clear(index, doc_id, text, metadata) ==
    LET tokens == tokenize(text)
        tf == compute_term_freq(tokens)
        old == index.term_doc_freq
    IN [documents |-> Append(index.documents,
                             [id |-> doc_id, text |-> text,
                              metadata |-> metadata, tokens |-> tokens]),
        term_doc_freq |->
            [term \in DOMAIN old \cup DOMAIN tf |->
                (IF term \in DOMAIN old THEN old[term] ELSE 0)
                + (IF term \in DOMAIN tf THEN 1 ELSE 0)],
        doc_term_freq |-> Append(index.doc_term_freq, tf),
        idf_cache |-> [term \in DOMAIN index.idf_cache \ DOMAIN tf |->
                          index.idf_cache[term]]]

add_document(index, doc_id, text, metadata) ==
    LET tokens == tokenize(text)
        tf == compute_term_freq(tokens)
        old == index.term_doc_freq
    IN [documents |-> Append(index.documents,
                             [id |-> doc_id, text |-> text,
                              metadata |-> metadata, tokens |-> tokens]),
        term_doc_freq |->
            [term \in DOMAIN old \cup DOMAIN tf |->
                (IF term \in DOMAIN old THEN old[term] ELSE 0)
                + (IF term \in DOMAIN tf THEN 1 ELSE 0)],
        doc_term_freq |-> Append(index.doc_term_freq, tf),
        idf_cache |-> EmptyMap]

\* results.sort(key=score, reverse=True): a stable sort, equal scores keep
\* their order
RECURSIVE InsertByScore(_, _)
RECURSIVE InsertByScore_unstable(_, _)
\* InsertByScore as it would be if the sort put a result before its equals
InsertByScore_unstable(sorted, r) ==
    IF sorted = <<>> THEN <<r>>
    ELSE IF Head(sorted).score > r.score
         THEN <<Head(sorted)>> \o InsertByScore_unstable(Tail(sorted), r)
         ELSE <<r>> \o sorted

InsertByScore(sorted, r) ==
    IF sorted = <<>> THEN <<r>>
    ELSE IF Head(sorted).score >= r.score
         THEN <<Head(sorted)>> \o InsertByScore(Tail(sorted), r)
         ELSE <<r>> \o sorted

RECURSIVE SortByScore(_, _)
SortByScore(results, sorted) ==
    IF results = <<>> THEN sorted
    ELSE SortByScore(Tail(results), InsertByScore(sorted, Head(results)))

\* seq[:k] for an integer k
SliceTo(seq, k) ==
    IF k >= 0 THEN SubSeq(seq, 1, IF k < Len(seq) THEN k ELSE Len(seq))
    ELSE SubSeq(seq, 1, IF Len(seq) + k > 0 THEN Len(seq) + k ELSE 0)

\* AppendIfPositive as it would be if a score of 0 were kept
AppendIfPositive_or_zero(results, doc, score) ==
    IF score >= 0 THEN Append(results, [doc |-> doc, score |-> score]) ELSE results

\* lines 133-137: results with the document appended when its score is positive
AppendIfPositive(results, doc, score) ==
    IF score > 0 THEN Append(results, [doc |-> doc, score |-> score]) ELSE results

\* the scoring loop of TfidfIndex.search over the documents from doc_idx on;
\* ScoreDocument is one pass of the loop, d the outcome of compute_tfidf on
\* the document's term frequencies
RECURSIVE ScoreLoop(_, _, _, _)
RECURSIVE ScoreDocument(_, _, _, _, _)
ScoreDocument(d, documents, query_tfidf, doc_idx, results) ==
    ScoreLoop(d.index, query_tfidf, doc_idx + 1,
              AppendIfPositive(results, documents[doc_idx],
                               cosine_similarity(query_tfidf, d.tfidf)))

ScoreLoop(index, query_tfidf, doc_idx, results) ==
    IF doc_idx > Len(index.documents)
    THEN [results |-> results, index |-> index]
    ELSE ScoreDocument(compute_tfidf(index, index.doc_term_freq[doc_idx]),
                       index.documents, query_tfidf, doc_idx, results)

\* is v usable as a slice bound (an int, a bool or None)
IsSliceIndex(v) == v.t \in {"num", "bool", "null"}

\* line 142: sorted[:top_k]
TopK(sorted, top_k) ==
    CASE top_k.t = "null" -> sorted
      [] top_k.t = "bool" -> SliceTo(sorted, IF top_k.b THEN 1 ELSE 0)
      [] top_k.t = "num" -> SliceTo(sorted, top_k.n)

\* lines 139-142 on the outcome s of the scoring loop
SortAndSlice(s, top_k) ==
    IF ~IsSliceIndex(top_k)
    THEN [exc |-> "TypeError",
          msg |-> "slice indices must be integers or None or have an __index__ method",
          value |-> <<>>, index |-> s.index]
    ELSE [exc |-> "", msg |-> "",
          value |-> TopK(SortByScore(s.results, <<>>), top_k), index |-> s.index]

\* lines 128-142 on the outcome q of compute_tfidf on the query
ScoreAll(q, top_k) == SortAndSlice(ScoreLoop(q.index, q.tfidf, 1, <<>>), top_k)

\* TfidfIndex.search(query, top_k) on JSON arguments; value is the list of
\* {doc, score}
TfidfIndex_search(index, query, top_k) ==
    IF index.documents = <<>> THEN [exc |-> "", msg |-> "", value |-> <<>>, index |-> index]
    ELSE IF query.t # "str"
    THEN [exc |-> "AttributeError", msg |-> NoAttribute(query, "lower"),
          value |-> <<>>, index |-> index]
    ELSE ScoreAll(compute_tfidf(index, compute_term_freq(tokenize(query.s))), top_k)

(***************************************************************************)
(* The file system the server runs on                                      *)
(***************************************************************************)
Dir(entries) == [kind |-> "dir", entries |-> entries, readable |-> TRUE, text |-> ""]
File(text) == [kind |-> "file", entries |-> <<>>, readable |-> TRUE, text |-> text]
\* a file whose open/read raises UnicodeDecodeError, PermissionError or OSError
UnreadableFile == [kind |-> "file", entries |-> <<>>, readable |-> FALSE, text |-> ""]

\* the process's working directory
Cwd == "/ws"

\* entries are in the order os.scandir lists them
FileSystem ==
    ("/ws" :> Dir(<<"a.rs", "bad.txt", ".hid.py", "notes.bin", "node_modules", "sub">>))
    @@ ("/ws/a.rs" :> File("fn parse_token() {}"))
    @@ ("/ws/bad.txt" :> UnreadableFile)
    @@ ("/ws/.hid.py" :> File("# hidden"))
    @@ ("/ws/notes.bin" :> File("Token notes"))
    @@ ("/ws/node_modules" :> Dir(<<"x.js">>))
    @@ ("/ws/node_modules/x.js" :> File("function x() {}"))
    @@ ("/ws/sub" :> Dir(<<"b.py", ".c.py">>))
    @@ ("/ws/sub/b.py" :> File("def Render(): pass"))
    @@ ("/ws/sub/.c.py" :> File("def Cached(): pass"))
    \* a directory that holds only deny-listed directories
    @@ ("/deny" :> Dir(<<"node_modules", "build">>))
    @@ ("/deny/node_modules" :> Dir(<<"y.js", "z.js">>))
    @@ ("/deny/node_modules/y.js" :> File("function y() {}"))
    @@ ("/deny/node_modules/z.js" :> UnreadableFile)
    @@ ("/deny/build" :> Dir(<<"m.py">>))
    @@ ("/deny/build/m.py" :> File("def made(): pass"))
    \* the documents A and B of the ranking scenario, and an empty file
    @@ ("/corpus" :> Dir(<<"a.rs", "b.rs", "e.txt", "r.rs">>))
    @@ ("/corpus/r.rs" :> File("fn fn render_frame fn"))
    @@ ("/corpus/a.rs" :> File("fn parse_token() {}"))
    @@ ("/corpus/b.rs" :> File("fn render_frame() {}"))
    @@ ("/corpus/e.txt" :> File(""))

SOURCE_EXTENSIONS ==
    {".rs", ".py", ".js", ".ts", ".jsx", ".tsx", ".go", ".java",
     ".c", ".cpp", ".cc", ".cxx", ".h", ".hpp", ".md", ".toml",
     ".json", ".yaml", ".yml", ".txt"}

SKIP_DIRS ==
    {".git", "node_modules", "target", "__pycache__", "dist",
     "build", ".next", ".venv", "venv", "vendor"}

(***************************************************************************)
(* pathlib                                                                 *)
(***************************************************************************)
\* the segments of a path with '', '.' and '..' resolved
RECURSIVE Normalize(_, _)
Normalize(segs, acc) ==
    IF segs = <<>> THEN acc
    ELSE IF Head(segs) \in {"", "."} THEN Normalize(Tail(segs), acc)
    ELSE IF Head(segs) = ".."
         THEN Normalize(Tail(segs),
                        IF acc = <<>> THEN acc ELSE SubSeq(acc, 1, Len(acc) - 1))
    ELSE Normalize(Tail(segs), Append(acc, Head(segs)))

\* Path.parts of an absolute path, without the leading '/'
PathParts(path) == Normalize(Split(path, "/"), <<>>)

\* str(Path(path_str).resolve()) (the model's file system has no symlinks)
Resolve(path_str) ==
    LET segs == IF StartsWith(path_str, "/") THEN Split(path_str, "/")
                ELSE Split(Cwd, "/") \o Split(path_str, "/")
    IN "/" \o Join(Normalize(segs, <<>>), "/")

\* Path.name
PathName(path) ==
    LET parts == PathParts(path)
    IN IF parts = <<>> THEN "" ELSE parts[Len(parts)]

\* str.rfind('.') (1-based, 0 when there is none)
RECURSIVE RFindDot(_, _)
RFindDot(s, i) ==
    IF i = 0 THEN 0 ELSE IF CharAt(s, i) = "." THEN i ELSE RFindDot(s, i - 1)

\* Path.suffix
PathSuffix(path) ==
    LET name == PathName(path)
        i == RFindDot(name, Len(name))
    IN IF 1 < i /\ i < Len(name) THEN SubSeq(name, i, Len(name)) ELSE ""

\* Path(root) / file
JoinPath(root, file) == root \o "/" \o file

PathExists(path) == path \in DOMAIN FileSystem
IsFile(path) == FileSystem[path].kind = "file"

(***************************************************************************)
(* CodeIndex                                                               *)
(***************************************************************************)
NewCodeIndex == [index |-> NewTfidfIndex, indexed_files |-> {}, doc_counter |-> 0]

\* should_index_file as it would be without the test of lines 244-245
should_index_file_hidden(path) ==
    LET parts == PathParts(path)
    IN IF PathSuffix(path) \notin SOURCE_EXTENSIONS THEN FALSE
       ELSE IF \E i \in DOMAIN parts : parts[i] \in SKIP_DIRS THEN FALSE
       ELSE TRUE

should_index_file(path) ==
    LET parts == PathParts(path)
    IN IF PathSuffix(path) \notin SOURCE_EXTENSIONS THEN FALSE
       ELSE IF \E i \in DOMAIN parts : parts[i] \in SKIP_DIRS THEN FALSE
       ELSE IF StartsWith(PathName(path), ".") THEN FALSE
       ELSE TRUE

\* read_file_safe as it would be if a file that cannot be read gave ''
read_file_safe_empty(path) == [ok |-> TRUE, content |-> FileSystem[path].text]

\* the content, or None (ok = FALSE)
read_file_safe(path) ==
    IF FileSystem[path].readable
    THEN [ok |-> TRUE, content |-> FileSystem[path].text]
    ELSE [ok |-> FALSE, content |-> ""]

RECURSIVE SnippetLoop(_, _, _, _)
SnippetLoop(lines, snippet_lines, char_count, max_length) ==
    IF lines = <<>> THEN snippet_lines
    ELSE LET stripped == Strip(Head(lines))
         IN IF stripped # ""
               /\ ~(StartsWith(stripped, "/") \/ StartsWith(stripped, "#")
                    \/ StartsWith(stripped, "*"))
            THEN IF char_count + Len(stripped) > max_length
                 THEN Append(snippet_lines, stripped)
                 ELSE SnippetLoop(Tail(lines), Append(snippet_lines, stripped),
                                  char_count + Len(stripped), max_length)
            ELSE SnippetLoop(Tail(lines), snippet_lines, char_count, max_length)

\* s[:n]
Prefix(s, n) == SubSeq(s, 1, IF n < Len(s) THEN n ELSE Len(s))

get_snippet(content, max_length) ==
    LET joined == Join(SnippetLoop(Split(content, "\n"), <<>>, 0, max_length), " ")
        snippet == IF Len(joined) > max_length
                   THEN Prefix(joined, max_length) \o "..."
                   ELSE joined
    IN IF snippet # "" THEN snippet ELSE Prefix(content, max_length)

\* os.walk(top) with the pruning of line 298: the (root, files) it yields, top
\* first, then what the walk of each kept subdirectory yields, in turn
RECURSIVE os_walk(_)
RECURSIVE WalkDirs(_, _)
RECURSIVE WalkDirs_unpruned(_, _)
\* WalkDirs as it would be without the pruning: every subdirectory is walked
WalkDirs_unpruned(top, names) ==
    IF names = <<>> THEN <<>>
    ELSE (IF FileSystem[JoinPath(top, Head(names))].kind = "dir"
          THEN os_walk(JoinPath(top, Head(names))) ELSE <<>>)
         \o WalkDirs_unpruned(top, Tail(names))

WalkDirs(top, names) ==
    IF names = <<>> THEN <<>>
    ELSE (IF FileSystem[JoinPath(top, Head(names))].kind = "dir"
             /\ Head(names) \notin SKIP_DIRS
          THEN os_walk(JoinPath(top, Head(names))) ELSE <<>>)
         \o WalkDirs(top, Tail(names))

os_walk(top) ==
    <<[root |-> top,
       files |-> SelectSeq(FileSystem[top].entries,
                           LAMBDA n : FileSystem[JoinPath(top, n)].kind = "file")]>>
        \o WalkDirs(top, FileSystem[top].entries)

\* lines 300-303: the files of the walk that should_index_file keeps
RECURSIVE KeptFiles(_)
KeptFiles(walked) ==
    IF walked = <<>> THEN <<>>
    ELSE SelectSeq([i \in DOMAIN Head(walked).files |->
                       JoinPath(Head(walked).root, Head(walked).files[i])],
                   should_index_file)
         \o KeptFiles(Tail(walked))

\* files_to_index for a directory
WalkFiles(top) == KeptFiles(os_walk(top))

NoCounts == [indexed |-> 0, skipped |-> 0, errors |-> 0]

\* IndexFiles as it would be if doc_counter were left as it is
RECURSIVE IndexFiles_same_id(_, _, _)
IndexFiles_same_id(ci, files, counts) ==
    IF files = <<>> THEN [ci |-> ci, counts |-> counts]
    ELSE IF ~read_file_safe(Head(files)).ok
    THEN IndexFiles_same_id(ci, Tail(files), [counts EXCEPT !.skipped = @ + 1])
    ELSE IndexFiles_same_id(
            [index |-> add_document(ci.index, ci.doc_counter + 1,
                                    read_file_safe(Head(files)).content,
                                    [path |-> Head(files),
                                     name |-> PathName(Head(files)),
                                     ext |-> PathSuffix(Head(files))]),
             indexed_files |-> ci.indexed_files \cup {Head(files)},
             doc_counter |-> ci.doc_counter],
            Tail(files), [counts EXCEPT !.indexed = @ + 1])

\* the loop of build_index over files_to_index
RECURSIVE IndexFiles(_, _, _)
IndexFiles(ci, files, counts) ==
    IF files = <<>> THEN [ci |-> ci, counts |-> counts]
    ELSE LET file_path == Head(files)
             r == read_file_safe(file_path)
         IN IF ~r.ok
            THEN IndexFiles(ci, Tail(files), [counts EXCEPT !.skipped = @ + 1])
            ELSE IndexFiles(
                    [index |-> add_document(ci.index, ci.doc_counter + 1, r.content,
                                            [path |-> file_path,
                                             name |-> PathName(file_path),
                                             ext |-> PathSuffix(file_path)]),
                     indexed_files |-> ci.indexed_files \cup {file_path},
                     doc_counter |-> ci.doc_counter + 1],
                    Tail(files), [counts EXCEPT !.indexed = @ + 1])

\* the loop of build_index over paths; a path entry that is not a string
\* makes Path() raise TypeError with the files of the earlier paths indexed
RECURSIVE PathsLoop(_, _, _)

\* MissingPath as it would be if a path that does not exist ended the call
MissingPath_abort(ci, rest, counts) ==
    PathsLoop(ci, <<>>, [counts EXCEPT !.errors = @ + 1])

\* lines 287-290: the path does not exist; the loop goes on with the rest
MissingPath(ci, rest, counts) ==
    PathsLoop(ci, rest, [counts EXCEPT !.errors = @ + 1])

\* FilesToIndex as it would be if a file named directly had to be eligible
FilesToIndex_filtered(path) ==
    IF IsFile(path)
    THEN (IF should_index_file(path) THEN <<path>> ELSE <<>>)
    ELSE WalkFiles(path)

\* lines 292-308: files_to_index for a path that exists
FilesToIndex(path) == IF IsFile(path) THEN <<path>> ELSE WalkFiles(path)

\* TotalFiles as it would be if every indexed document counted
TotalFiles_documents(ci) == Len(ci.index.documents)

\* line 336: len(self.indexed_files)
TotalFiles(ci) == Cardinality(ci.indexed_files)

PathsLoop(ci, paths, counts) ==
    IF paths = <<>>
    THEN Return(JObj([indexed |-> JNum(counts.indexed),
                      skipped |-> JNum(counts.skipped),
                      errors |-> JNum(counts.errors),
                      total_files |-> JNum(TotalFiles(ci))]), ci)
    ELSE LET path_str == Head(paths)
         IN IF path_str.t # "str"
            THEN Raise("TypeError",
                       "expected str, bytes or os.PathLike object, not "
                           \o PyTypeName(path_str), ci)
            ELSE LET path == Resolve(path_str.s)
                 IN IF ~PathExists(path)
                    THEN MissingPath(ci, Tail(paths), counts)
                    ELSE LET r == IndexFiles(ci, FilesToIndex(path), counts)
                         IN PathsLoop(r.ci, Tail(paths), r.counts)

\* the elements of a set in some fixed order
RECURSIVE SetToSeq(_)
SetToSeq(S) ==
    IF S = {} THEN <<>>
    ELSE LET x == CHOOSE y \in S : TRUE IN <<x>> \o SetToSeq(S \ {x})

\* what `for path_str in paths` iterates over (JSON values in order)
IterItems(v) ==
    CASE v.t = "arr" -> v.a
      [] v.t = "str" -> [i \in 1..Len(v.s) |-> JStr(CharAt(v.s, i))]
      [] v.t = "obj" -> LET keys == SetToSeq(DOMAIN v.o)
                        IN [i \in 1..Len(keys) |-> JStr(keys[i])]
      [] OTHER -> <<>>

IsIterable(v) == v.t \in {"arr", "str", "obj"}

build_index(ci, paths) ==
    IF ~IsIterable(paths)
    THEN Raise("TypeError", "'" \o PyTypeName(paths) \o "' object is not iterable", ci)
    ELSE PathsLoop(ci, IterItems(paths), NoCounts)

\* round(score, 4): from units of 10^-6 to units of 10^-4
Round4(score) == (score + 50) \div 100

\* the snippet budget get_snippet defaults to
SnippetLength == 200

\* lines 343-352: one entry of matches
Match(result) ==
    JObj([file |-> JStr(result.doc.metadata.path),
          score |-> JFloat(Round4(result.score)),
          snippet |-> JStr(get_snippet(result.doc.text, SnippetLength))])

\* lines 343-354 on the outcome r of TfidfIndex.search
Matches(r, ci) ==
    IF r.exc # "" THEN Raise(r.exc, r.msg, [ci EXCEPT !.index = r.index])
    ELSE Return(JArr([i \in 1..Len(r.value) |-> Match(r.value[i])]),
                [ci EXCEPT !.index = r.index])

CodeIndex_search(ci, query, top_k) ==
    Matches(TfidfIndex_search(ci.index, query, top_k), ci)

(***************************************************************************)
(* re: the compiled patterns of CodeAnalyzer as syntax trees, matched by   *)
(* backtracking in the order of Python's re module                         *)
(***************************************************************************)
\* `sub in s` on two strings
Contains(s, sub) ==
    \E i \in 1..(Len(s) - Len(sub) + 1) : SubSeq(s, i, i + Len(sub) - 1) = sub

\* the character c belongs to the one-character item it
Accepts(it, c) ==
    it.neg # (c \in it.chars \/ ("w" \in it.cls /\ IsWordChar(c))
                              \/ ("s" \in it.cls /\ IsSpace(c)))

\* \b holds before the character at pos
AtBoundary(s, pos) ==
    (pos > 1 /\ IsWordChar(CharAt(s, pos - 1)))
        # (pos <= Len(s) /\ IsWordChar(CharAt(s, pos)))

\* how many characters from pos on the one-character item it accepts
RECURSIVE RunLength(_, _, _)
RunLength(s, it, pos) ==
    IF pos <= Len(s) /\ Accepts(it, CharAt(s, pos))
    THEN 1 + RunLength(s, it, pos + 1)
    ELSE 0

NoMatch == [ok |-> FALSE]
\* the first of the attempts rs, made in the order of backtracking, to match
FirstMatch(rs) == Head(SelectSeq(rs, LAMBDA r : r.ok) \o <<NoMatch>>)

\* the items, in sequence, matched at pos; g is group 1 so far
RECURSIVE MatchAt(_, _, _, _)
MatchAt(s, items, pos, g) ==
    IF items = <<>> THEN [ok |-> TRUE, end |-> pos, g |-> g]
    ELSE LET it == Head(items)
             rest == Tail(items)
         IN CASE it.k = "one" ->
                   IF pos <= Len(s) /\ Accepts(it, CharAt(s, pos))
                   THEN MatchAt(s, rest, pos + 1, g)
                   ELSE NoMatch
              [] it.k = "lit" ->
                   IF /\ pos + Len(it.w) - 1 <= Len(s)
                      /\ SubSeq(s, pos, pos + Len(it.w) - 1) = it.w
                   THEN MatchAt(s, rest, pos + Len(it.w), g)
                   ELSE NoMatch
              [] it.k = "b" ->
                   IF AtBoundary(s, pos) THEN MatchAt(s, rest, pos, g) ELSE NoMatch
              [] it.k = "open" -> MatchAt(s, rest, pos, [g EXCEPT !.from = pos])
              [] it.k = "close" -> MatchAt(s, rest, pos, [g EXCEPT !.to = pos])
              \* x+ and x* on one character: greedy, then one character less
              [] it.k = "rep" ->
                   FirstMatch([n \in 1..(RunLength(s, it.of, pos) - it.min + 1) |->
                       MatchAt(s, rest, pos + RunLength(s, it.of, pos) - n + 1, g)])
              \* (?:...)?
              [] it.k = "opt" ->
                   FirstMatch(<<MatchAt(s, it.sub \o rest, pos, g),
                                MatchAt(s, rest, pos, g)>>)
              \* (?:a|b|...) and (?:a|b|...)+ : the alternatives in order
              [] it.k = "alt" ->
                   FirstMatch([i \in 1..Len(it.alts) |->
                       MatchAt(s, it.alts[i] \o rest, pos, g)])
              [] it.k = "plus" ->
                   FirstMatch([i \in 1..Len(it.alts) |->
                       MatchAt(s, it.alts[i] \o <<[it EXCEPT !.k = "star"]>> \o rest,
                               pos, g)])
              \* one more repetition, and no more when none matches
              [] it.k = "star" ->
                   FirstMatch([i \in 1..(Len(it.alts) + 1) |->
                       IF i <= Len(it.alts)
                       THEN MatchAt(s, it.alts[i] \o <<it>> \o rest, pos, g)
                       ELSE MatchAt(s, rest, pos, g)])

\* the positions from pos on at which the items match
MatchStarts(s, items, pos) ==
    {i \in pos..(Len(s) + 1) : MatchAt(s, items, i, [from |-> 1, to |-> 1]).ok}

RECURSIVE FindAllFrom(_, _, _)
\* the group of the match r at pos, then the scan from its end on
Found(s, items, pos, r) ==
    <<SubSeq(s, r.g.from, r.g.to - 1)>>
        \o FindAllFrom(s, items, IF r.end = pos THEN pos + 1 ELSE r.end)

\* the leftmost of the matches that start in starts, and those after it
Leftmost(s, items, starts) ==
    IF starts = {} THEN <<>>
    ELSE Found(s, items, CHOOSE i \in starts : \A j \in starts : i <= j,
               MatchAt(s, items, CHOOSE i \in starts : \A j \in starts : i <= j,
                       [from |-> 1, to |-> 1]))

\* pattern.findall(s) for a pattern with one group: the group of each
\* non-overlapping match, leftmost first
FindAllFrom(s, items, pos) == Leftmost(s, items, MatchStarts(s, items, pos))

\* CodeAnalyzer.PATTERNS, in the order of the dict
PATTERNS ==
    LET One(neg, chars, cls) ==
            [k |-> "one", neg |-> neg, chars |-> chars, cls |-> cls]
        Chr(c) == One(FALSE, {c}, {})
        Lit(w) == <<[k |-> "lit", w |-> w]>>
        Plus(it) == [k |-> "rep", of |-> it, min |-> 1]
        Star(it) == [k |-> "rep", of |-> it, min |-> 0]
        W == One(FALSE, {}, {"w"})
        S == One(FALSE, {}, {"s"})
        B == [k |-> "b"]
        Opt(sub) == [k |-> "opt", sub |-> sub]
        Alt(alts) == [k |-> "alt", alts |-> alts]
        Name == <<[k |-> "open"], Plus(W), [k |-> "close"]>>
        \* \bkeyword\s+(\w+)\s*
        Decl(keyword) == <<B>> \o Lit(keyword) \o <<Plus(S)>> \o Name \o <<Star(S)>>
    IN << [name |-> "rust_fn", re |-> Decl("fn") \o <<One(FALSE, {"<", "("}, {})>>],
          [name |-> "rust_struct",
           re |-> Decl("struct") \o <<One(FALSE, {"<", "{"}, {})>>],
          [name |-> "rust_enum", re |-> Decl("enum") \o <<One(FALSE, {"<", "{"}, {})>>],
          [name |-> "rust_trait",
           re |-> Decl("trait") \o <<One(FALSE, {"<", "{"}, {})>>],
          [name |-> "rust_impl",
           re |-> <<B>> \o Lit("impl") \o <<Plus(S),
                    Opt(<<Chr("<"), Plus(One(TRUE, {">"}, {})), Chr(">"), Plus(S)>>)>>
                    \o Name],
          [name |-> "python_def", re |-> Decl("def") \o <<Chr("(")>>],
          [name |-> "python_class",
           re |-> Decl("class") \o <<One(FALSE, {"(", ":", ")"}, {})>>],
          [name |-> "js_function", re |-> Decl("function") \o <<Chr("(")>>],
          [name |-> "js_class", re |-> Decl("class") \o <<Chr("{")>>],
          [name |-> "js_const_fn",
           re |-> Decl("const") \o <<Chr("="), Star(S),
                    Opt(Lit("async") \o <<Plus(S)>>),
                    Alt(<<Lit("function"), <<Chr("(")>> >>)>>],
          [name |-> "go_func",
           re |-> <<B>> \o Lit("func") \o <<Plus(S),
                    Opt(<<Chr("("), Plus(One(TRUE, {")"}, {})), Chr(")"), Plus(S)>>)>>
                    \o Name \o <<Star(S), Chr("(")>>],
          [name |-> "go_struct",
           re |-> <<B>> \o Lit("type") \o <<Plus(S)>> \o Name \o <<Plus(S)>>
                    \o Lit("struct") \o <<Star(S), Chr("{")>>],
          [name |-> "go_interface",
           re |-> <<B>> \o Lit("type") \o <<Plus(S)>> \o Name \o <<Plus(S)>>
                    \o Lit("interface") \o <<Star(S), Chr("{")>>],
          [name |-> "java_method",
           re |-> <<B, [k |-> "plus",
                        alts |-> <<Lit("public"), Lit("private"), Lit("protected"),
                                   Lit("static"), <<S>> >>],
                    Plus(W), Plus(S)>> \o Name \o <<Star(S), Chr("(")>>],
          [name |-> "java_class",
           re |-> Decl("class") \o <<One(FALSE, {"{", "<"}, {})>>],
          [name |-> "c_function",
           re |-> <<B, Plus(W), Plus(S)>> \o Name
                    \o <<Star(S), Chr("("), Star(One(TRUE, {")"}, {})), Chr(")"),
                         Star(S), Chr("{")>>] >>

(***************************************************************************)
(* CodeAnalyzer                                                            *)
(***************************************************************************)
\* pattern.findall(content)
FindAll(pattern, content) == FindAllFrom(content, pattern.re, 1)

\* the list of symbols that the matches of a pattern extend
Category(pattern_name) ==
    IF \/ Contains(pattern_name, "fn") \/ Contains(pattern_name, "def")
       \/ Contains(pattern_name, "func") \/ Contains(pattern_name, "function")
       \/ Contains(pattern_name, "method")
    THEN "functions"
    ELSE IF Contains(pattern_name, "class") THEN "classes"
    ELSE IF Contains(pattern_name, "struct") THEN "structs"
    ELSE IF Contains(pattern_name, "trait") \/ Contains(pattern_name, "interface")
    THEN "traits"
    ELSE IF Contains(pattern_name, "enum") THEN "enums"
    ELSE "other"

\* the loop over PATTERNS.items(), from the pattern at index i on
RECURSIVE ApplyPatterns(_, _, _)
ApplyPatterns(content, i, symbols) ==
    IF i > Len(PATTERNS) THEN symbols
    ELSE ApplyPatterns(content, i + 1,
             [symbols EXCEPT ![Category(PATTERNS[i].name)] =
                                 @ \o FindAll(PATTERNS[i], content)])

\* Unique as it would be if it kept the last occurrence of each item
RECURSIVE Unique_keep_last(_, _)
Unique_keep_last(items, unique) ==
    IF items = <<>> THEN unique
    ELSE Unique_keep_last(Tail(items),
                          IF \E j \in 2..Len(items) : items[j] = Head(items)
                          THEN unique
                          ELSE Append(unique, Head(items)))

\* the removal of duplicates that keeps the order of first occurrence
RECURSIVE Unique(_, _)
Unique(items, unique) ==
    IF items = <<>> THEN unique
    ELSE Unique(Tail(items),
                IF \E j \in 1..Len(unique) : unique[j] = Head(items)
                THEN unique
                ELSE Append(unique, Head(items)))

SymbolKeys == {"functions", "classes", "structs", "traits", "enums", "other"}

\* the dict of symbols as JSON: a list of strings under each key
SymbolLists(symbols) ==
    JObj([key \in SymbolKeys |->
              JArr([j \in 1..Len(Unique(symbols[key], <<>>)) |->
                        JStr(Unique(symbols[key], <<>>)[j])])])

analyze(content, file_path) ==
    JObj([symbols |-> SymbolLists(ApplyPatterns(content, 1,
                                                [key \in SymbolKeys |-> <<>>])),
          line_count |-> JNum(Len(Split(content, "\n"))),
          char_count |-> JNum(Len(content))])

\* the contents that the analyze requests of this model carry
Contents == {"fn main() {}\nstruct User {\n name: String,\n}", "x"}

\* analyze is a function of content alone (ext, line 184, is never read):
\* its value on each of Contents, computed once
AnalysisOf == [content \in Contents |-> analyze(content, "")]

(***************************************************************************)
(* JsonRpcServer                                                           *)
(***************************************************************************)
handle_ping(params, ci) == Return(JStr("pong"), ci)

handle_build_index(params, ci) ==
    IF ~HasGet(params) THEN Raise("AttributeError", NoAttribute(params, "get"), ci)
    ELSE LET paths == GetDefault(params, "paths", JArr(<<>>))
         IN IF ~Truthy(paths) THEN Raise("ValueError", "Missing 'paths' parameter", ci)
            ELSE build_index(ci, paths)

\* lines 386-388 on the outcome r of CodeIndex.search
SearchResult(r) ==
    IF Raised(r) THEN r ELSE Return(JObj([matches |-> r.value]), r.ci)

\* handle_search as it would be without the check of indexed_files
handle_search_unchecked(params, ci) ==
    IF ~HasGet(params) THEN Raise("AttributeError", NoAttribute(params, "get"), ci)
    ELSE IF ~Truthy(Get(params, "query"))
    THEN Raise("ValueError", "Missing 'query' parameter", ci)
    ELSE SearchResult(CodeIndex_search(ci, Get(params, "query"),
                                       GetDefault(params, "top_k", JNum(5))))

\* handle_search as it would be if it checked indexed_files before the query
handle_search_index_first(params, ci) ==
    IF ~HasGet(params) THEN Raise("AttributeError", NoAttribute(params, "get"), ci)
    ELSE IF ci.indexed_files = {} THEN Raise("RuntimeError", "Index not built", ci)
    ELSE IF ~Truthy(Get(params, "query"))
    THEN Raise("ValueError", "Missing 'query' parameter", ci)
    ELSE SearchResult(CodeIndex_search(ci, Get(params, "query"),
                                       GetDefault(params, "top_k", JNum(5))))

handle_search(params, ci) ==
    IF ~HasGet(params) THEN Raise("AttributeError", NoAttribute(params, "get"), ci)
    ELSE IF ~Truthy(Get(params, "query"))
    THEN Raise("ValueError", "Missing 'query' parameter", ci)
    ELSE IF ci.indexed_files = {} THEN Raise("RuntimeError", "Index not built", ci)
    ELSE SearchResult(CodeIndex_search(ci, Get(params, "query"),
                                       GetDefault(params, "top_k", JNum(5))))

\* handle_analyze as it would be if it recorded the analyzed path as indexed
handle_analyze_recording(params, ci) ==
    IF ~HasGet(params) THEN Raise("AttributeError", NoAttribute(params, "get"), ci)
    ELSE IF Get(params, "content").t # "str"
    THEN Raise("ValueError", "Missing 'content' parameter", ci)
    ELSE Return(AnalysisOf[CHOOSE c \in Contents : TRUE],
                [ci EXCEPT !.indexed_files = @ \cup {"<analyzed>"}])

handle_analyze(params, ci) ==
    IF ~HasGet(params) THEN Raise("AttributeError", NoAttribute(params, "get"), ci)
    ELSE LET content == Get(params, "content")
             path == GetDefault(params, "path", JStr(""))
         IN IF content.t = "null" THEN Raise("ValueError", "Missing 'content' parameter", ci)
            ELSE IF Truthy(path) /\ path.t # "str"
            THEN Raise("TypeError",
                       "expected str, bytes or os.PathLike object, not "
                           \o PyTypeName(path), ci)
            ELSE IF content.t # "str"
            THEN Raise("TypeError",
                       "expected string or bytes-like object, got '"
                           \o PyTypeName(content) \o "'", ci)
            ELSE Return(IF content.s \in Contents
                        THEN AnalysisOf[content.s]
                        ELSE analyze(content.s, path), ci)

ErrorResponse(code, message, id) ==
    JObj([jsonrpc |-> JStr("2.0"),
          error |-> JObj([code |-> JNum(code), message |-> JStr(message)]),
          id |-> id])

\* the success response as it would be if it did not echo the id
ResultResponse_null_id(result, id) ==
    JObj([jsonrpc |-> JStr("2.0"), result |-> result, id |-> JNull])

ResultResponse(result, id) ==
    JObj([jsonrpc |-> JStr("2.0"), result |-> result, id |-> id])

\* lines 402-411: the answer to a request whose version marker is not "2.0"
InvalidRequestResponse(request) ==
    ErrorResponse(-32600, "Invalid Request: jsonrpc must be \"2.0\"", Get(request, "id"))

\* the method-not-found response as it would be without the method name
MethodNotFoundResponse_generic(method, request_id) ==
    ErrorResponse(-32601, "Method not found", request_id)

\* lines 427-434
MethodNotFoundResponse(method, request_id) ==
    ErrorResponse(-32601, "Method not found: " \o PyStr(method), request_id)

\* lines 442-451: the except clause, e is the outcome that raised
HandlerErrorResponse(e, request_id) == ErrorResponse(-1, e.msg, request_id)

\* the outcome of the else branch of the dispatch: no handler was called
NotFound(ci) == [exc |-> "", msg |-> "", value |-> JNull, ci |-> ci, not_found |-> TRUE]

\* the if/elif chain of the try block
Dispatch(method, params, ci) ==
    CASE method = JStr("ping") -> handle_ping(params, ci)
      [] method = JStr("build_index") -> handle_build_index(params, ci)
      [] method = JStr("search") -> handle_search(params, ci)
      [] method = JStr("analyze") -> handle_analyze(params, ci)
      [] OTHER -> NotFound(ci)

\* lines 426-451 on the outcome r of the dispatch: the response to a request
\* whose version marker is valid
Respond(r, method, request_id, ci) ==
    IF "not_found" \in DOMAIN r
    THEN Return(MethodNotFoundResponse(method, request_id), ci)
    ELSE IF Raised(r)
    THEN Return(HandlerErrorResponse(r, request_id), r.ci)
    ELSE Return(ResultResponse(r.value, request_id), r.ci)

\* Respond as it would be without the except clause
Respond_uncaught(r, method, request_id, ci) ==
    IF "not_found" \in DOMAIN r
    THEN Return(MethodNotFoundResponse(method, request_id), ci)
    ELSE IF Raised(r)
    THEN Raise(r.exc, r.msg, r.ci)
    ELSE Return(ResultResponse(r.value, request_id), r.ci)

\* Respond as it would be if the version marker were checked after the dispatch
Respond_validate_last(r, request, ci) ==
    IF Get(request, "jsonrpc") # JStr("2.0")
    THEN Return(InvalidRequestResponse(request), r.ci)
    ELSE Respond(r, Get(request, "method"), Get(request, "id"), ci)

\* handle_request as it would be if it dispatched before it validated the
\* version marker
handle_request_dispatch_first(request, ci) ==
    IF ~HasGet(request) THEN Raise("AttributeError", NoAttribute(request, "get"), ci)
    ELSE Respond_validate_last(
            Dispatch(Get(request, "method"),
                     GetDefault(request, "params", JEmptyObj), ci),
            request, ci)

\* handle_request as it would be without the try/except around the dispatch
handle_request_uncaught(request, ci) ==
    IF ~HasGet(request) THEN Raise("AttributeError", NoAttribute(request, "get"), ci)
    ELSE IF Get(request, "jsonrpc") # JStr("2.0")
    THEN Return(InvalidRequestResponse(request), ci)
    ELSE Respond_uncaught(
            Dispatch(Get(request, "method"),
                     GetDefault(request, "params", JEmptyObj), ci),
            Get(request, "method"), Get(request, "id"), ci)

\* value is the response dict; raises only when request is not a dict
handle_request(request, ci) ==
    IF ~HasGet(request) THEN Raise("AttributeError", NoAttribute(request, "get"), ci)
    ELSE IF Get(request, "jsonrpc") # JStr("2.0")
    THEN Return(InvalidRequestResponse(request), ci)
    ELSE Respond(Dispatch(Get(request, "method"),
                          GetDefault(request, "params", JEmptyObj), ci),
                 Get(request, "method"), Get(request, "id"), ci)

(***************************************************************************)
(* Input lines                                                             *)
(***************************************************************************)
\* a line that is empty after line.strip()
BlankLine == [kind |-> "blank", value |-> JNull]
\* a line json.loads rejects with JSONDecodeError
GarbageLine == [kind |-> "garbage", value |-> JNull]
\* a line holding the JSON text of value
JsonLine(value) == [kind |-> "json", value |-> value]
\* before the first line is read
NoLine == [kind |-> "none", value |-> JNull]

json_loads(l, ci) ==
    IF l.kind = "json" THEN Return(l.value, ci)
    ELSE Raise("JSONDecodeError", "Expecting value", ci)

\* lines 469-477: the parse-error response
ParseErrorResponse == ErrorResponse(-32700, "Parse error: Invalid JSON", JNull)

\* lines 465 and 479-480 on the outcome r of handle_request: the response is
\* printed, or the exception is logged to stderr and nothing is printed
PrintResponse(r) ==
    IF Raised(r)
    THEN [out |-> <<>>, ci |-> r.ci, failed |-> FALSE]
    ELSE [out |-> <<r.value>>, ci |-> r.ci, failed |-> FALSE]

\* PrintResponse as it would be without the final `except Exception` clause
PrintResponse_propagates(r) ==
    IF Raised(r)
    THEN [out |-> <<>>, ci |-> r.ci, failed |-> TRUE]
    ELSE [out |-> <<r.value>>, ci |-> r.ci, failed |-> FALSE]

\* run as it would be without the final `except Exception` clause
run_propagates(l, ci) ==
    IF l.kind = "blank" THEN [out |-> <<>>, ci |-> ci, failed |-> FALSE]
    ELSE IF json_loads(l, ci).exc = "JSONDecodeError"
    THEN [out |-> <<ParseErrorResponse>>, ci |-> ci, failed |-> FALSE]
    ELSE PrintResponse_propagates(handle_request(json_loads(l, ci).value, ci))

\* run as it would be if the parse-error branch started over with a new index
run_reset_on_parse_error(l, ci) ==
    IF l.kind = "blank" THEN [out |-> <<>>, ci |-> ci, failed |-> FALSE]
    ELSE IF json_loads(l, ci).exc = "JSONDecodeError"
    THEN [out |-> <<ParseErrorResponse>>, ci |-> NewCodeIndex, failed |-> FALSE]
    ELSE PrintResponse(handle_request(json_loads(l, ci).value, ci))

\* one iteration of the loop of run on a line: out is what it prints to
\* stdout, failed tells whether an exception leaves the loop
run(l, ci) ==
    IF l.kind = "blank" THEN [out |-> <<>>, ci |-> ci, failed |-> FALSE]
    ELSE IF json_loads(l, ci).exc = "JSONDecodeError"
    THEN [out |-> <<ParseErrorResponse>>, ci |-> ci, failed |-> FALSE]
    ELSE PrintResponse(handle_request(json_loads(l, ci).value, ci))

(***************************************************************************)
(* The lines the front end may send                                        *)
(***************************************************************************)
\* a key that is left out of an object
Absent == [t |-> "absent"]

\* the dict with the given keys, without those that are Absent
MkObj(fields) ==
    JObj([k \in {x \in DOMAIN fields : fields[x].t # "absent"} |-> fields[k]])

Request(jsonrpc, method, params, id) ==
    MkObj([jsonrpc |-> jsonrpc, method |-> method, params |-> params, id |-> id])

StrList(strs) == JArr([i \in 1..Len(strs) |-> JStr(strs[i])])

\* the ids a request may carry; a request may also leave the id out
Ids == {JNum(7), JStr("a")}

PathLists ==
    { StrList(<<"/ws/a.rs">>), StrList(<<"/nope">>), StrList(<<"/ws/bad.txt">>),
      StrList(<<"/ws">>), StrList(<<"/ws/node_modules">>),
      StrList(<<"/ws/notes.bin">>), StrList(<<"/nope", "sub/../sub/b.py">>),
      JArr(<<JStr("/ws/a.rs"), JNum(5)>>) }

BuildIndexParams ==
    {Absent, JNull, JEmptyObj, MkObj([paths |-> JArr(<<>>)]), MkObj([query |-> JStr("x")])}
    \cup {MkObj([paths |-> p]) : p \in PathLists}

SearchParams ==
    {Absent, JNull, JArr(<<JNum(1)>>), JEmptyObj,
     MkObj([query |-> JStr("")]), MkObj([top_k |-> JNum(3)]),
     MkObj([query |-> JStr("parse_token")]),
     MkObj([query |-> JStr("Render token"), top_k |-> JNum(1)]),
     MkObj([query |-> JStr("parse_token"), top_k |-> JStr("x")]),
     MkObj([query |-> JNum(5)])}

AnalyzeParams ==
    {Absent, JNull, JEmptyObj, MkObj([path |-> JStr("a.rs")]),
     MkObj([content |-> JNum(5)])}
    \cup {MkObj([content |-> JStr(content), path |-> path]) :
              content \in Contents, path \in {JStr("test.rs"), JNum(5)}}

MethodParams ==
    ({JStr("ping")} \X {Absent, JNull})
    \cup ({JStr("build_index")} \X BuildIndexParams)
    \cup ({JStr("search")} \X SearchParams)
    \cup ({JStr("analyze")} \X AnalyzeParams)
    \cup ({JStr("frobnicate"), Absent} \X {Absent, MkObj([paths |-> StrList(<<"/ws">>)])})

\* objects with the version marker "2.0"
VersionedRequests ==
    {Request(JStr("2.0"), mp[1], mp[2], id) : mp \in MethodParams, id \in Ids}
    \cup {Request(JStr("2.0"), m, Absent, Absent) :
            m \in {JStr("ping"), JStr("search"), JStr("frobnicate"), JNum(3)}}

\* objects whose version marker is missing or wrong
BadVersions == {Absent, JStr("1.0"), JNum(2)}
UnversionedRequests ==
    {Request(v, mp[1], mp[2], id) :
        v \in BadVersions,
        mp \in {<<JStr("ping"), Absent>>,
                <<JStr("build_index"), MkObj([paths |-> StrList(<<"/ws/a.rs">>)])>>},
        id \in {Absent, JNum(7)}}

\* valid JSON that is not an object
NonObjects == {JNum(42), JArr(<<JNum(1), JNum(2)>>), JStr("ping"), JNull}

Lines ==
    {BlankLine, GarbageLine}
    \cup {JsonLine(v) : v \in NonObjects \cup VersionedRequests \cup UnversionedRequests}

(***************************************************************************)
(* The server process                                                      *)
(***************************************************************************)
Init ==
    /\ code_index = NewCodeIndex
    /\ line = NoLine
    /\ output = <<>>
    /\ pc = "run"

\* the state after an iteration of the loop with outcome r on the line l
Iteration(l, r) ==
    /\ Len(r.ci.index.documents) <= MaxDocs
    /\ code_index' = r.ci
    /\ line' = l
    /\ output' = r.out
    /\ pc' = IF r.failed THEN "fatal" ELSE "run"

\* the loop of run reads the line l, handles it and prints the response
ReadLine(l) ==
    /\ pc = "run"
    /\ Iteration(l, run(l, code_index))

\* sys.stdin is exhausted: the for loop ends and run returns
EndOfInput ==
    /\ pc = "run"
    /\ pc' = "done"
    /\ UNCHANGED <<code_index, line, output>>

Next == (\E l \in Lines : ReadLine(l)) \/ EndOfInput

Spec == Init /\ [][Next]_vars

(***************************************************************************)
(* The index in use: build_index on lists of paths, and TfidfIndex.search  *)
(* on the corpus that the calls have built                                 *)
(***************************************************************************)
\* the state after build_index(paths) with outcome r
Built(paths, r) ==
    /\ Len(r.ci.index.documents) <= MaxDocs
    /\ code_index' = r.ci
    /\ line' = [kind |-> "build_index", paths |-> paths]
    /\ output' = <<r.value>>
    /\ UNCHANGED pc

\* CodeIndex.build_index on a list of path strings
Build(paths) == Built(paths, build_index(code_index, StrList(paths)))

\* the state after index.search(query, top_k) with outcome r: the results,
\* and the index with the idfs the call cached
Searched(query, top_k, r) ==
    /\ code_index' = [code_index EXCEPT !.index = r.index]
    /\ line' = [kind |-> "search", query |-> query, top_k |-> top_k, exc |-> r.exc]
    /\ output' = r.value
    /\ UNCHANGED pc

\* TfidfIndex.search on a query string and an integer top_k
Search(query, top_k) ==
    Searched(query, top_k, TfidfIndex_search(code_index.index, JStr(query), JNum(top_k)))

\* the files that are indexed, one per call, to build a corpus
CorpusFiles == {"/corpus/a.rs", "/corpus/b.rs", "/corpus/e.txt", "/corpus/r.rs"}

Queries ==
    {"", "parse", "fn", "parse_token", "parse_token render_frame",
     "render_frame parse_token parse_token"}

\* the lists of paths that build_index is called with
BuildPaths ==
    { <<>>, <<"/nope">>, <<"/ws/a.rs">>, <<"/nope", "/ws/a.rs">>,
      <<"/ws/a.rs", "/nope", "/ws/notes.bin">>, <<"/missing/x.py", "/ws/sub", "/nope">>,
      <<"/ws/bad.txt">>, <<"/ws/bad.txt", "/ws/sub">>, <<"/ws">>, <<"/ws", "/ws/a.rs">>,
      <<"/deny">>, <<"/deny", "sub/b.py">>, <<"/deny/build">>, <<"/ws/node_modules">>,
      <<"/ws/node_modules/x.js">>, <<"/deny/node_modules/z.js", "/ws/.hid.py">>,
      <<"/ws/notes.bin">>, <<"/ws/.hid.py">>, <<"/ws/sub">>,
      <<"/ws/sub", "sub/b.py">> }

NextBuild == \E paths \in BuildPaths : Build(paths)

SpecBuild == Init /\ [][NextBuild]_vars

(***************************************************************************)
(* The pure functions: TfidfIndex.tokenize, CodeIndex.get_snippet and      *)
(* CodeAnalyzer.analyze, each applied once to an input                     *)
(***************************************************************************)
\* the strings of at most n characters: letters of both cases, a digit, the
\* underscore, a blank, a line break and a comment marker
RECURSIVE Strings(_)
Strings(n) ==
    IF n = 0 THEN {""}
    ELSE Strings(n - 1)
         \cup {s \o c : s \in Strings(n - 1), c \in {"a", "B", "1", "_", " ", "\n", "#"}}

Texts == Strings(MaxLen)

\* the contents given to analyze
Sources ==
    {"", "fn a() {}\nfn a() {}", "fn b() {}\nfn a() {}\nfn b() {}",
     "def g(): pass\nfn h() {}", "class A:\n  def f(self): pass\nclass A {",
     "struct S {}\ntype T struct {\nstruct S<"}

Tokenize(text) ==
    /\ line = NoLine
    /\ line' = [kind |-> "tokenize", text |-> text]
    /\ output' = tokenize(text)
    /\ UNCHANGED <<code_index, pc>>

Snippet(content, max_length) ==
    /\ line = NoLine
    /\ line' = [kind |-> "get_snippet", text |-> content, max_length |-> max_length]
    /\ output' = <<get_snippet(content, max_length)>>
    /\ UNCHANGED <<code_index, pc>>

Analyze(content) ==
    /\ line = NoLine
    /\ line' = [kind |-> "analyze", text |-> content]
    /\ output' = <<analyze(content, "")>>
    /\ UNCHANGED <<code_index, pc>>

NextPure ==
    \/ \E text \in Texts : Tokenize(text)
    \/ \E content \in Texts, max_length \in (0..MaxLen) \cup {SnippetLength} :
          Snippet(content, max_length)
    \/ \E content \in Sources : Analyze(content)

SpecPure == Init /\ [][NextPure]_vars

\* TfidfIndex.compute_idf(term), called on its own
ComputeIdf(term) ==
    /\ code_index' = [code_index EXCEPT !.index = compute_idf(code_index.index, term).index]
    /\ line' = [kind |-> "compute_idf", term |-> term]
    /\ output' = <<compute_idf(code_index.index, term).idf>>
    /\ UNCHANGED pc

NextIndex ==
    \/ \E path \in CorpusFiles : Build(<<path>>)
    \/ \E query \in Queries, top_k \in 0..MaxK : Search(query, top_k)
    \/ \E term \in {"fn", "parse", "render_frame"} : ComputeIdf(term)

SpecIndex == Init /\ [][NextIndex]_vars

(***************************************************************************)
(* Vocabulary of the properties                                            *)
(***************************************************************************)
IsPrefix(s, t) == Len(s) <= Len(t) /\ SubSeq(t, 1, Len(s)) = s

\* the line l holds a JSON object
IsObjectLine(l) == l.kind = "json" /\ l.value.t = "obj"

\* the line l holds an object with the version marker "2.0"
IsVersioned(l) == IsObjectLine(l) /\ Get(l.value, "jsonrpc") = JStr("2.0")

MethodOf(l) == Get(l.value, "method")
ParamsOf(l) == GetDefault(l.value, "params", JEmptyObj)
IdOf(l) == Get(l.value, "id")

RecognizedMethods == {JStr("ping"), JStr("build_index"), JStr("search"), JStr("analyze")}

\* the line l is a request for the method named m with the version marker "2.0"
IsCall(l, m) == IsVersioned(l) /\ MethodOf(l) = JStr(m)

\* out is exactly one response line, and it is an error with this code
IsError(out, code) ==
    /\ Len(out) = 1
    /\ "error" \in DOMAIN out[1].o
    /\ "result" \notin DOMAIN out[1].o
    /\ out[1].o.error.o.code = JNum(code)

ErrorMessage(out) == out[1].o.error.o.message.s

\* out is exactly one response line, and it carries a result
IsResult(out) ==
    /\ Len(out) = 1
    /\ "result" \in DOMAIN out[1].o
    /\ "error" \notin DOMAIN out[1].o

ResponseId(out) == out[1].o.id

\* the part of the server state the spec calls the corpus state
Corpus(ci) ==
    [documents |-> ci.index.documents, term_doc_freq |-> ci.index.term_doc_freq,
     doc_term_freq |-> ci.index.doc_term_freq,
     indexed_files |-> ci.indexed_files, doc_counter |-> ci.doc_counter]

(***************************************************************************)
(* C1: every input line that is not blank (unparseable, valid JSON of any  *)
(* type, or a well-formed request) gets exactly one response line written  *)
(* before the next line is read.                                           *)
(***************************************************************************)
C1_OneResponsePerLine ==
    line.kind \in {"garbage", "json"} => Len(output) = 1

(***************************************************************************)
(* C2: no input line terminates the loop: whatever lines came before, the  *)
(* loop is still reading (or has reached the end of the input), and a      *)
(* well-formed ping is answered with result "pong" and the ping's id.      *)
(***************************************************************************)
C2_LoopSurvives ==
    /\ pc \in {"run", "done"}
    /\ IsCall(line, "ping") => output = <<ResultResponse(JStr("pong"), IdOf(line))>>

C2_Witness ==
    /\ IsCall(line, "ping")
    /\ IdOf(line) = JStr("a")
    /\ IsResult(output)
    /\ output[1].o.result = JStr("pong")
    /\ code_index.doc_counter > 0
    /\ pc = "run"

(***************************************************************************)
(* C3: an unparseable line is answered with error -32700 and a null id,    *)
(* and it leaves the server such that every request line sent next gets    *)
(* the response (and leaves the state) it would have got had the           *)
(* unparseable line not been sent.                                         *)
(***************************************************************************)
C3_ParseErrorIsolated ==
    [][line'.kind = "garbage" =>
          /\ IsError(output', -32700)
          /\ ResponseId(output') = JNull
          /\ \A l \in Lines : l.kind = "json" => run(l, code_index') = run(l, code_index)
      ]_vars

C3_Witness ==
    /\ line.kind = "garbage"
    /\ IsError(output, -32700)
    /\ ResponseId(output) = JNull
    /\ code_index.indexed_files # {}
    /\ code_index.index.idf_cache # EmptyMap

(***************************************************************************)
(* C4: an object whose version marker is missing or not "2.0" is answered  *)
(* with error -32600 echoing the request's id, and no handler runs: the    *)
(* corpus state is unchanged even for a build_index with existing paths.   *)
(***************************************************************************)
C4_InvalidRequestBeforeDispatch ==
    [][(IsObjectLine(line') /\ ~IsVersioned(line')) =>
          /\ IsError(output', -32600)
          /\ ResponseId(output') = IdOf(line')
          /\ Corpus(code_index') = Corpus(code_index)
      ]_vars

C4_Witness ==
    /\ IsObjectLine(line)
    /\ Get(line.value, "jsonrpc") = JStr("1.0")
    /\ MethodOf(line) = JStr("build_index")
    /\ IsError(output, -32600)
    /\ ResponseId(output) = JNum(7)
    /\ code_index.doc_counter = 1

(***************************************************************************)
(* C5: a request with a valid version marker whose method is not ping,     *)
(* build_index, search or analyze is answered with error -32601, a message *)
(* containing the method name, and the request's id; the corpus state is   *)
(* unchanged.                                                              *)
(***************************************************************************)
C5_MethodNotFound ==
    [][(IsVersioned(line') /\ MethodOf(line') \notin RecognizedMethods) =>
          /\ IsError(output', -32601)
          /\ MethodOf(line').t = "str" => Contains(ErrorMessage(output'), MethodOf(line').s)
          /\ ResponseId(output') = IdOf(line')
          /\ Corpus(code_index') = Corpus(code_index)
      ]_vars

C5_Witness ==
    /\ IsCall(line, "frobnicate")
    /\ "params" \in DOMAIN line.value.o
    /\ IsError(output, -32601)
    /\ Contains(ErrorMessage(output), "frobnicate")
    /\ ResponseId(output) = JStr("a")

(***************************************************************************)
(* C6: every response that carries a result has the id of the request      *)
(* that produced it.                                                       *)
(***************************************************************************)
C6_ResultEchoesId ==
    (output # <<>> /\ "result" \in DOMAIN output[1].o) =>
        /\ IsObjectLine(line)
        /\ ResponseId(output) = IdOf(line)

C6_Witness ==
    /\ IsCall(line, "search")
    /\ IsResult(output)
    /\ output[1].o.result.o.matches.a # <<>>
    /\ ResponseId(output) = JStr("a")

(***************************************************************************)
(* C7 (as stated): a search with a non-empty query is answered with the    *)
(* "Index not built" error exactly when no file has ever been indexed, and *)
(* once a file has been indexed every search with a non-empty query is     *)
(* answered with a result holding a matches list.                          *)
(***************************************************************************)
\* the line l is a search whose params hold a non-empty query string
IsSearchWithQuery(l) ==
    /\ IsCall(l, "search")
    /\ ParamsOf(l).t = "obj"
    /\ Get(ParamsOf(l), "query").t = "str"
    /\ Get(ParamsOf(l), "query").s # ""

IsIndexNotBuilt(out) == IsError(out, -1) /\ ErrorMessage(out) = "Index not built"

HasMatches(out) ==
    /\ IsResult(out)
    /\ out[1].o.result.t = "obj"
    /\ "matches" \in DOMAIN out[1].o.result.o
    /\ out[1].o.result.o.matches.t = "arr"

RequiredField(l) ==
    CASE MethodOf(l) = JStr("search") -> "query"
      [] MethodOf(l) = JStr("build_index") -> "paths"
      [] MethodOf(l) = JStr("analyze") -> "content"
      [] OTHER -> ""

LacksRequiredField(l) ==
    /\ IsVersioned(l)
    /\ MethodOf(l) \in {JStr("search"), JStr("build_index"), JStr("analyze")}
    /\ ParamsOf(l).t = "obj"
    /\ RequiredField(l) \notin DOMAIN ParamsOf(l).o

C8_MissingParameter ==
    [][(pc' = "run" /\ LacksRequiredField(line')) =>
          /\ IsError(output', -1)
          /\ Contains(ErrorMessage(output'), "'" \o RequiredField(line') \o "'")
          /\ ResponseId(output') = IdOf(line')
          /\ Corpus(code_index') = Corpus(code_index)
      ]_vars

C8_Witness ==
    /\ IsCall(line, "search")
    /\ LacksRequiredField(line)
    /\ code_index.indexed_files = {}
    /\ IsError(output, -1)
    /\ ErrorMessage(output) = "Missing 'query' parameter"

(***************************************************************************)
(* C9: for an object with a valid version marker and a recognized method,  *)
(* an exception raised inside the handler is caught at the dispatch        *)
(* boundary: exactly one response is written, it is the error with code    *)
(* -1, the exception's message and the request's id, and the loop goes on. *)
(***************************************************************************)
C9_HandlerExceptionCaught ==
    [][(pc = "run" /\ pc' # "done" /\ IsVersioned(line')
        /\ MethodOf(line') \in RecognizedMethods) =>
          LET r == Dispatch(MethodOf(line'), ParamsOf(line'), code_index)
          IN /\ pc' = "run"
             /\ Len(output') = 1
             /\ Raised(r) => output' = <<ErrorResponse(-1, r.msg, IdOf(line'))>>
      ]_vars

C9_Witness ==
    /\ IsCall(line, "build_index")
    /\ ParamsOf(line).t = "obj"
    /\ Get(ParamsOf(line), "paths") = JArr(<<JStr("/ws/a.rs"), JNum(5)>>)
    /\ IsError(output, -1)
    /\ ErrorMessage(output) = "expected str, bytes or os.PathLike object, not int"
    /\ ResponseId(output) = JNum(7)
    /\ pc = "run"

(***************************************************************************)
(* C10: build_index is additive: in every step the document list (ids,     *)
(* texts, metadata) and the list of term-frequency maps before the step    *)
(* are prefixes of the lists after it, so no document is ever changed or   *)
(* removed.                                                                *)
(***************************************************************************)
C10_Additive ==
    [][/\ IsPrefix(code_index.index.documents, code_index'.index.documents)
       /\ IsPrefix(code_index.index.doc_term_freq, code_index'.index.doc_term_freq)
      ]_vars

C10_Witness ==
    /\ IsCall(line, "build_index")
    /\ IsResult(output)
    /\ output[1].o.result.o.indexed = JNum(1)
    /\ Len(code_index.index.documents) = 2
    /\ code_index.index.documents[1].id = 1
    /\ code_index.index.documents[2].id = 2

(***************************************************************************)
(* C11: TfidfIndex.search returns only documents whose score is strictly   *)
(* positive, by score descending and, among equal scores, by ascending     *)
(* document id; for a top_k >= 0 the result is the first min(top_k, n)     *)
(* entries of that ordering of the n documents with a positive score.      *)
(***************************************************************************)
\* the score of the document at doc_idx for the query
ScoreOf(index, query, doc_idx) ==
    cosine_similarity(
        compute_tfidf(index, compute_term_freq(tokenize(query))).tfidf,
        compute_tfidf(index, index.doc_term_freq[doc_idx]).tfidf)

\* the documents, by position, that score above 0 for the query
Positive(index, query) ==
    {d \in 1..Len(index.documents) : ScoreOf(index, query, d) > 0}

\* the result a comes before the result b in the ordering
RanksBefore(a, b) ==
    a.score > b.score \/ (a.score = b.score /\ a.doc.id < b.doc.id)

\* the result that the document at doc_idx makes for the query
ResultOf(index, query, doc_idx) ==
    [doc |-> index.documents[doc_idx], score |-> ScoreOf(index, query, doc_idx)]

C11_RankedTopK ==
    line.kind = "search" =>
        /\ Len(output) =
               IF line.top_k < Cardinality(Positive(code_index.index, line.query))
               THEN line.top_k
               ELSE Cardinality(Positive(code_index.index, line.query))
        /\ \A i \in 1..Len(output) :
               \E d \in Positive(code_index.index, line.query) :
                   output[i] = ResultOf(code_index.index, line.query, d)
        /\ \A i, j \in 1..Len(output) : i < j => RanksBefore(output[i], output[j])
        /\ \A d \in Positive(code_index.index, line.query) :
               \/ \E i \in 1..Len(output) :
                      output[i] = ResultOf(code_index.index, line.query, d)
               \/ \A i \in 1..Len(output) :
                      RanksBefore(output[i], ResultOf(code_index.index, line.query, d))

\* two documents tie and come out in the order of their ids
C11_Witness ==
    /\ line.kind = "search"
    /\ Len(output) = 2
    /\ output[1].score = output[2].score
    /\ output[1].doc.id < output[2].doc.id

(***************************************************************************)
(* C12: for a non-empty corpus and any document d in it, a search with d's *)
(* own full text as the query returns d first or tied for first.           *)
(***************************************************************************)
\* the results of a search for the query that asks for the whole corpus
AllResults(index, query) ==
    TfidfIndex_search(index, JStr(query), JNum(Len(index.documents))).value

C12_SelfQueryRanksFirst ==
    \A d \in 1..Len(code_index.index.documents) :
        /\ AllResults(code_index.index, code_index.index.documents[d].text) # <<>>
        /\ \E i \in 1..Len(AllResults(code_index.index,
                                      code_index.index.documents[d].text)) :
               LET results == AllResults(code_index.index,
                                         code_index.index.documents[d].text)
               IN /\ results[i].doc = code_index.index.documents[d]
                  /\ results[i].score = results[1].score

(***************************************************************************)
(* C13: with document A = "fn parse_token() {}" and document B =           *)
(* "fn render_frame() {}" indexed, the query "parse" returns A with a      *)
(* strictly positive score and does not return B.                          *)
(***************************************************************************)
C13_ParseReturnsA ==
    (/\ line.kind = "search"
     /\ line.query = "parse"
     /\ line.top_k >= 1
     /\ Len(code_index.index.documents) = 2
     /\ code_index.index.documents[1].text = "fn parse_token() {}"
     /\ code_index.index.documents[2].text = "fn render_frame() {}")
    => /\ \E i \in 1..Len(output) :
              output[i].doc = code_index.index.documents[1] /\ output[i].score > 0
       /\ \A i \in 1..Len(output) : output[i].doc # code_index.index.documents[2]

(***************************************************************************)
(* C14: adding a document that contains a previously-unseen term does not  *)
(* change which of the documents already in the corpus are returned, nor   *)
(* their order, for every query that does not contain that term.           *)
(***************************************************************************)
\* the ids, in order of rank, of the documents with an id up to last_id that
\* a search for the query returns
Ranking(index, query, last_id) ==
    SelectSeq([i \in 1..Len(AllResults(index, query)) |->
                   AllResults(index, query)[i].doc.id],
              LAMBDA id : id <= last_id)

\* the terms of the document that a step adds which no document had before
UnseenTerms(index, added) ==
    {added.tokens[i] : i \in 1..Len(added.tokens)} \ DOMAIN index.term_doc_freq

C14_RankingStable ==
    [][Len(code_index'.index.documents) = Len(code_index.index.documents) + 1 =>
          \A term \in UnseenTerms(code_index.index,
                                  code_index'.index.documents[
                                      Len(code_index'.index.documents)]) :
              \A query \in Queries :
                  (\A i \in 1..Len(tokenize(query)) : tokenize(query)[i] # term) =>
                      Ranking(code_index'.index, query, code_index.doc_counter)
                          = Ranking(code_index.index, query, code_index.doc_counter)
      ]_vars

(***************************************************************************)
(* C15: TfidfIndex.search never raises and never yields an undefined       *)
(* score: on an empty corpus, for an empty query, or when the query or a   *)
(* document has a zero-magnitude tf-idf vector, the similarity is 0 and    *)
(* the document is left out; the result is a (possibly empty) list of      *)
(* documents with positive scores.                                         *)
(***************************************************************************)
\* the tf-idf vector of a term-frequency map has magnitude 0
ZeroMagnitude(index, tf) ==
    \A term \in DOMAIN tf : compute_tfidf(index, tf).tfidf[term] = 0

C15_SearchIsTotal ==
    line.kind = "search" =>
        /\ line.exc = ""
        /\ output \in Seq({output[i] : i \in 1..Len(output)})
        /\ \A i \in 1..Len(output) : output[i].score > 0
        /\ code_index.index.documents = <<>> => output = <<>>
        /\ \A d \in 1..Len(code_index.index.documents) :
               (\/ ZeroMagnitude(code_index.index,
                                 compute_term_freq(tokenize(line.query)))
                \/ ZeroMagnitude(code_index.index, code_index.index.doc_term_freq[d]))
               => /\ ScoreOf(code_index.index, line.query, d) = 0
                  /\ \A i \in 1..Len(output) :
                         output[i].doc # code_index.index.documents[d]

\* a document without tokens is left out of a result that holds the other one
C15_Witness ==
    /\ line.kind = "search"
    /\ line.exc = ""
    /\ Len(code_index.index.documents) = 2
    /\ code_index.index.documents[2].tokens = <<>>
    /\ ZeroMagnitude(code_index.index, code_index.index.doc_term_freq[2])
    /\ Len(output) = 1
    /\ output[1].doc = code_index.index.documents[1]

(***************************************************************************)
(* C16: in build_index each input path that does not exist adds exactly 1  *)
(* to errors and nothing to indexed or skipped, and the other paths of the *)
(* call, before and after it, are processed as if it were not in the list. *)
(***************************************************************************)
\* the paths of the list that exist
ExistingPaths(paths) == SelectSeq(paths, LAMBDA p : PathExists(Resolve(p)))

\* a counter of the result of build_index
Counter(result, name) == result.o[name].n

C16_MissingPathCounted ==
    [][line'.kind = "build_index" =>
          LET without == build_index(code_index, StrList(ExistingPaths(line'.paths)))
          IN /\ code_index' = without.ci
             /\ Counter(output'[1], "indexed") = Counter(without.value, "indexed")
             /\ Counter(output'[1], "skipped") = Counter(without.value, "skipped")
             /\ Counter(output'[1], "errors") =
                    Counter(without.value, "errors")
                        + Len(line'.paths) - Len(ExistingPaths(line'.paths))
             /\ Counter(without.value, "errors") = 0
      ]_vars

\* a missing path between two files that are indexed
C16_Witness ==
    /\ line.kind = "build_index"
    /\ line.paths = <<"/ws/a.rs", "/nope", "/ws/notes.bin">>
    /\ Counter(output[1], "indexed") = 2
    /\ Counter(output[1], "skipped") = 0
    /\ Counter(output[1], "errors") = 1
    /\ Len(code_index.index.documents) = 2

(***************************************************************************)
(* C17: a directory walk prunes deny-listed subdirectories before descent: *)
(* os.walk yields no directory beneath a deny-listed subdirectory of the   *)
(* walked root, no file beneath one reaches files_to_index, and            *)
(* build_index on a directory that holds only deny-listed directories      *)
(* returns indexed=0, skipped=0, errors=0 and leaves the corpus unchanged. *)
(***************************************************************************)
\* the segments of path below the walked root
Below(path, top) ==
    SubSeq(PathParts(path), Len(PathParts(top)) + 1, Len(PathParts(path)))

UnderDenied(path, top) ==
    \E i \in DOMAIN Below(path, top) : Below(path, top)[i] \in SKIP_DIRS

\* a directory whose entries are all deny-listed directories, with files in them
OnlyDenied(path) ==
    /\ PathExists(path) /\ ~IsFile(path)
    /\ FileSystem[path].entries # <<>>
    /\ \A i \in DOMAIN FileSystem[path].entries :
          /\ FileSystem[path].entries[i] \in SKIP_DIRS
          /\ ~IsFile(JoinPath(path, FileSystem[path].entries[i]))

WalkedRoots(paths) ==
    {Resolve(paths[i]) : i \in {j \in DOMAIN paths :
        PathExists(Resolve(paths[j])) /\ ~IsFile(Resolve(paths[j]))}}

C17_DeniedPruned ==
    [][line'.kind = "build_index" =>
          /\ \A top \in WalkedRoots(line'.paths) :
                /\ \A i \in DOMAIN os_walk(top) : ~UnderDenied(os_walk(top)[i].root, top)
                /\ \A i \in DOMAIN FilesToIndex(top) : ~UnderDenied(FilesToIndex(top)[i], top)
                /\ \A f \in code_index'.indexed_files \ code_index.indexed_files :
                      StartsWith(f, top \o "/") => ~UnderDenied(f, top)
          /\ (\A i \in DOMAIN line'.paths : OnlyDenied(Resolve(line'.paths[i])))
                => /\ Counter(output'[1], "indexed") = 0
                   /\ Counter(output'[1], "skipped") = 0
                   /\ Counter(output'[1], "errors") = 0
                   /\ code_index' = code_index
      ]_vars

\* build_index on /deny, whose node_modules and build hold three files, with
\* one document in the corpus
C17_Witness ==
    /\ line.kind = "build_index"
    /\ line.paths = <<"/deny">>
    /\ OnlyDenied("/deny")
    /\ Counter(output[1], "indexed") = 0
    /\ Counter(output[1], "skipped") = 0
    /\ Counter(output[1], "errors") = 0
    /\ Len(code_index.index.documents) = 1

(***************************************************************************)
(* C18: every document that a directory walk adds to the corpus comes from *)
(* a file whose extension is in the allow-list, whose name does not start  *)
(* with '.', and none of whose absolute path segments (those of the walked *)
(* root and of its ancestors included) is a deny-listed name; a file that  *)
(* fails one of the three is neither indexed nor counted as skipped.       *)
(***************************************************************************)
Eligible(file) ==
    /\ PathSuffix(file) \in SOURCE_EXTENSIONS
    /\ ~StartsWith(PathName(file), ".")
    /\ \A i \in DOMAIN PathParts(file) : PathParts(file)[i] \notin SKIP_DIRS

\* the files beneath a directory
FilesBeneath(top) ==
    {f \in DOMAIN FileSystem : IsFile(f) /\ StartsWith(f, top \o "/")}

\* the paths of the list that name a file
NamedFiles(paths) ==
    {Resolve(paths[i]) : i \in {j \in DOMAIN paths :
        PathExists(Resolve(paths[j])) /\ IsFile(Resolve(paths[j]))}}

\* the documents that the step added to the corpus
AddedDocuments(before, after) ==
    {after.index.documents[i] :
        i \in (Len(before.index.documents) + 1)..Len(after.index.documents)}

C18_WalkedFilesEligible ==
    [][line'.kind = "build_index" =>
          /\ \A doc \in AddedDocuments(code_index, code_index') :
                doc.metadata.path \notin NamedFiles(line'.paths)
                    => Eligible(doc.metadata.path)
          /\ \A top \in WalkedRoots(line'.paths) :
                Len(line'.paths) = 1 =>
                    /\ Counter(output'[1], "indexed") = Cardinality(
                          {f \in FilesBeneath(top) :
                              Eligible(f) /\ FileSystem[f].readable})
                    /\ Counter(output'[1], "skipped") = Cardinality(
                          {f \in FilesBeneath(top) :
                              Eligible(f) /\ ~FileSystem[f].readable})
                    /\ {doc.metadata.path :
                           doc \in AddedDocuments(code_index, code_index')}
                         = {f \in FilesBeneath(top) :
                               Eligible(f) /\ FileSystem[f].readable}
      ]_vars

\* the walk of /ws, which holds .hid.py, notes.bin and node_modules/x.js,
\* indexed a.rs and sub/b.py and skipped bad.txt
C18_Witness ==
    /\ line.kind = "build_index"
    /\ line.paths = <<"/ws">>
    /\ \E f \in FilesBeneath("/ws") : ~Eligible(f) /\ FileSystem[f].readable
    /\ Counter(output[1], "indexed") = 2
    /\ Counter(output[1], "skipped") = 1
    /\ Len(code_index.index.documents) = 2

(***************************************************************************)
(* C19: an input path of build_index that names an existing regular file   *)
(* is never dropped: whatever its extension, a leading '.' in its name or  *)
(* deny-listed segments in its path, it adds exactly 1 to indexed when it  *)
(* is readable as text and exactly 1 to skipped when it is not, and only   *)
(* that file is considered for that path.                                  *)
(***************************************************************************)
\* the resolved paths of the list that name a file, in the order of the list
NamedFileSeq(paths, readable) ==
    SelectSeq([i \in DOMAIN paths |-> Resolve(paths[i])],
              LAMBDA p : /\ PathExists(p)
                         /\ IsFile(p)
                         /\ FileSystem[p].readable = readable)

\* the paths of the documents that the step added, in the order of the corpus
AddedPaths(before, after) ==
    [i \in 1..(Len(after.index.documents) - Len(before.index.documents)) |->
        after.index.documents[Len(before.index.documents) + i].metadata.path]

C19_NamedFileNeverDropped ==
    [][(line'.kind = "build_index" /\ WalkedRoots(line'.paths) = {}) =>
          /\ Counter(output'[1], "indexed") = Len(NamedFileSeq(line'.paths, TRUE))
          /\ Counter(output'[1], "skipped") = Len(NamedFileSeq(line'.paths, FALSE))
          /\ AddedPaths(code_index, code_index') = NamedFileSeq(line'.paths, TRUE)
      ]_vars

\* an unreadable file under node_modules and a hidden file, both named
\* directly: one skipped, one indexed
C19_Witness ==
    /\ line.kind = "build_index"
    /\ line.paths = <<"/deny/node_modules/z.js", "/ws/.hid.py">>
    /\ ~should_index_file("/deny/node_modules/z.js")
    /\ ~should_index_file("/ws/.hid.py")
    /\ Counter(output[1], "indexed") = 1
    /\ Counter(output[1], "skipped") = 1
    /\ code_index.index.documents[Len(code_index.index.documents)].metadata.path
           = "/ws/.hid.py"

(***************************************************************************)
(* C20: a candidate file that cannot be read as text adds exactly 1 to     *)
(* skipped and 0 to errors, adds no document and no entry to               *)
(* indexed_files, does not advance doc_counter, and does not stop the      *)
(* remaining files and paths of the call from being processed.             *)
(***************************************************************************)
\* files_to_index of each path of the list that exists, in turn
RECURSIVE Candidates(_)
Candidates(paths) ==
    IF paths = <<>> THEN <<>>
    ELSE (IF PathExists(Resolve(Head(paths)))
          THEN FilesToIndex(Resolve(Head(paths))) ELSE <<>>)
         \o Candidates(Tail(paths))

Readable(files) == SelectSeq(files, LAMBDA f : FileSystem[f].readable)

Unreadable(files) == SelectSeq(files, LAMBDA f : ~FileSystem[f].readable)

C20_UnreadableSkipped ==
    [][line'.kind = "build_index" =>
          /\ Counter(output'[1], "skipped") = Len(Unreadable(Candidates(line'.paths)))
          /\ Counter(output'[1], "errors") =
                 Len(line'.paths) - Len(ExistingPaths(line'.paths))
          /\ Counter(output'[1], "indexed") = Len(Readable(Candidates(line'.paths)))
          /\ AddedPaths(code_index, code_index') = Readable(Candidates(line'.paths))
          /\ code_index'.doc_counter =
                 code_index.doc_counter + Len(Readable(Candidates(line'.paths)))
          /\ code_index'.indexed_files =
                 code_index.indexed_files
                     \cup {Readable(Candidates(line'.paths))[i] :
                              i \in DOMAIN Readable(Candidates(line'.paths))}
          /\ Counter(output'[1], "total_files") = Cardinality(code_index'.indexed_files)
      ]_vars

\* bad.txt cannot be read; the file of /ws/sub, after it in the call, is indexed
C20_Witness ==
    /\ line.kind = "build_index"
    /\ line.paths = <<"/ws/bad.txt", "/ws/sub">>
    /\ ~FileSystem["/ws/bad.txt"].readable
    /\ Counter(output[1], "skipped") = 1
    /\ Counter(output[1], "errors") = 0
    /\ Counter(output[1], "indexed") = 1
    /\ "/ws/bad.txt" \notin code_index.indexed_files
    /\ "/ws/sub/b.py" \in code_index.indexed_files
    /\ code_index.doc_counter = Len(code_index.index.documents)

(***************************************************************************)
(* C21: total_files, as build_index returns it, is the number of distinct  *)
(* file paths indexed by all the calls so far: it never decreases from one *)
(* call to the next, a file that is indexed again (in a later call or      *)
(* through overlapping paths of one call) raises indexed and the number of *)
(* documents but not total_files, and total_files never exceeds the number *)
(* of documents.                                                           *)
(***************************************************************************)
\* the paths of the documents of the corpus
IndexedPaths(ci) ==
    {ci.index.documents[i].metadata.path : i \in DOMAIN ci.index.documents}

C21_TotalFilesCumulative ==
    [][line'.kind = "build_index" =>
          /\ Counter(output'[1], "total_files") = Cardinality(IndexedPaths(code_index'))
          /\ line.kind = "build_index" =>
                Counter(output'[1], "total_files") >= Counter(output[1], "total_files")
          /\ Counter(output'[1], "total_files") =
                 Cardinality(IndexedPaths(code_index))
                     + Cardinality(IndexedPaths(code_index') \ IndexedPaths(code_index))
          /\ Len(code_index'.index.documents) =
                 Len(code_index.index.documents) + Counter(output'[1], "indexed")
          /\ Counter(output'[1], "total_files") <= Len(code_index'.index.documents)
      ]_vars

\* /ws/sub/b.py indexed twice by one call, through the walk of /ws/sub and by
\* name: two documents, one file
C21_Witness ==
    /\ line.kind = "build_index"
    /\ line.paths = <<"/ws/sub", "sub/b.py">>
    /\ Counter(output[1], "indexed") = 2
    /\ Len(code_index.index.documents) = 2
    /\ Counter(output[1], "total_files") = 1

(***************************************************************************)
(* C22: analyze and ping requests never touch the corpus: handling either  *)
(* one, in every state and whatever its outcome, leaves the document list, *)
(* the document-count map, the set of indexed files and the document       *)
(* counter unchanged, so that every search gives the same outcome after it *)
(* as before it.                                                           *)
(***************************************************************************)
\* the params of the search requests, given or left to the default {}; the
\* outcome of a search is a function of its params and of code_index, so the
\* searches are compared where a step changed any part of code_index
SearchArguments == (SearchParams \ {Absent}) \cup {JEmptyObj}

C22_AnalyzeAndPingFrame ==
    [][(IsCall(line', "analyze") \/ IsCall(line', "ping")) =>
          /\ Corpus(code_index') = Corpus(code_index)
          /\ \/ code_index' = code_index
             \/ \A params \in SearchArguments :
                   LET before == handle_search(params, code_index)
                       after == handle_search(params, code_index')
                   IN /\ after.exc = before.exc
                      /\ after.msg = before.msg
                      /\ after.value = before.value
      ]_vars

\* an analyze request answered with its result while the corpus holds
\* documents and cached idf values
C22_Witness ==
    /\ IsCall(line, "analyze")
    /\ IsResult(output)
    /\ "symbols" \in DOMAIN output[1].o.result.o
    /\ code_index.index.documents # <<>>
    /\ code_index.index.idf_cache # EmptyMap

(***************************************************************************)
(* C23: in the result of analyze every symbol bucket is free of duplicates *)
(* and lists the captured identifiers in the order of their first          *)
(* occurrence in the content, also when two of them are captured by        *)
(* different patterns of the table.                                        *)
(***************************************************************************)
\* the position of the first occurrence of sub in s
IndexOf(s, sub) ==
    CHOOSE i \in 1..(Len(s) - Len(sub) + 1) :
        /\ SubSeq(s, i, i + Len(sub) - 1) = sub
        /\ \A j \in 1..(i - 1) : SubSeq(s, j, j + Len(sub) - 1) # sub

\* the identifiers of a bucket of the result of analyze
Bucket(result, key) == result.o.symbols.o[key].a

C23_Original ==
    line.kind = "analyze" =>
        \A key \in SymbolKeys :
            \A i, j \in DOMAIN Bucket(output[1], key) :
                i < j => /\ Bucket(output[1], key)[i] # Bucket(output[1], key)[j]
                         /\ IndexOf(line.text, Bucket(output[1], key)[i].s)
                                < IndexOf(line.text, Bucket(output[1], key)[j].s)

\* C23 as the code has it: a bucket is free of duplicates, holds what the
\* patterns of its category capture, and lists the identifiers by the first
\* pattern of the table that captures them, and those of one pattern by
\* their first capture in the content.
PatternsOf(key) == {p \in DOMAIN PATTERNS : Category(PATTERNS[p].name) = key}

Captures(p, content, name) ==
    {i \in DOMAIN FindAll(PATTERNS[p], content) : FindAll(PATTERNS[p], content)[i] = name}

FirstPattern(key, content, name) ==
    CHOOSE p \in PatternsOf(key) :
        /\ Captures(p, content, name) # {}
        /\ \A q \in PatternsOf(key) : q < p => Captures(q, content, name) = {}

FirstCapture(p, content, name) ==
    CHOOSE i \in Captures(p, content, name) :
        \A j \in Captures(p, content, name) : i <= j

ListedBefore(key, content, a, b) ==
    \/ FirstPattern(key, content, a) < FirstPattern(key, content, b)
    \/ /\ FirstPattern(key, content, a) = FirstPattern(key, content, b)
       /\ FirstCapture(FirstPattern(key, content, a), content, a)
              < FirstCapture(FirstPattern(key, content, a), content, b)

C23_TableThenOccurrenceOrder ==
    line.kind = "analyze" =>
        \A key \in SymbolKeys :
            /\ {Bucket(output[1], key)[i].s : i \in DOMAIN Bucket(output[1], key)}
                   = {name \in UNION {{FindAll(PATTERNS[p], line.text)[i] :
                                          i \in DOMAIN FindAll(PATTERNS[p], line.text)} :
                                      p \in DOMAIN PATTERNS} :
                         \E p \in PatternsOf(key) : Captures(p, line.text, name) # {}}
            /\ \A i, j \in DOMAIN Bucket(output[1], key) :
                  i < j => /\ Bucket(output[1], key)[i] # Bucket(output[1], key)[j]
                           /\ ListedBefore(key, line.text, Bucket(output[1], key)[i].s,
                                           Bucket(output[1], key)[j].s)

\* g occurs before h in the content, h is captured by the first pattern of
\* the table and by two more, g by a later one: h is listed once, before g
C23_Witness ==
    /\ line.kind = "analyze"
    /\ line.text = "def g(): pass\nfn h() {}"
    /\ IndexOf(line.text, "g") < IndexOf(line.text, "h")
    /\ Cardinality({p \in PatternsOf("functions") : Captures(p, line.text, "h") # {}}) = 3
    /\ Bucket(output[1], "functions") = <<JStr("h"), JStr("g")>>

(***************************************************************************)
(* C24: in every reachable state of CodeIndex the document ids are         *)
(* pairwise distinct and increase with the list order, the i-th document   *)
(* inserted having the id i; no id is reused or reassigned; doc_counter    *)
(* equals the number of documents and of stored term-frequency maps.       *)
(***************************************************************************)
IdsInOrder(ci) ==
    /\ \A i \in DOMAIN ci.index.documents : ci.index.documents[i].id = i
    /\ \A i, j \in DOMAIN ci.index.documents :
          i < j => ci.index.documents[i].id < ci.index.documents[j].id
    /\ ci.doc_counter = Len(ci.index.documents)
    /\ ci.doc_counter = Len(ci.index.doc_term_freq)

\* the documents of before keep their place and their id
IdsKept(before, after) ==
    /\ Len(before.index.documents) <= Len(after.index.documents)
    /\ \A i \in DOMAIN before.index.documents :
          after.index.documents[i].id = before.index.documents[i].id

C24_IdsNeverReused ==
    [](IdsInOrder(code_index)) /\ [][IdsKept(code_index, code_index')]_vars

\* two calls have indexed one document each
C24_Witness ==
    /\ line.kind = "build_index"
    /\ Counter(output[1], "indexed") = 1
    /\ Len(code_index.index.documents) = 2
    /\ code_index.index.documents[2].id = 2
    /\ code_index.doc_counter = 2

(***************************************************************************)
(* C25: in every reachable state, for every term the document count of the *)
(* term is the number of stored documents whose term-frequency map holds   *)
(* it: add_document raises it by exactly one for each distinct term of the *)
(* new document, however often the term occurs in it, and no other         *)
(* operation changes it.                                                   *)
(***************************************************************************)
DocumentsWith(index, term) ==
    {i \in DOMAIN index.doc_term_freq : term \in DOMAIN index.doc_term_freq[i]}

DocumentCountsExact(index) ==
    /\ \A term \in DOMAIN index.term_doc_freq :
          index.term_doc_freq[term] = Cardinality(DocumentsWith(index, term))
    /\ \A i \in DOMAIN index.doc_term_freq :
          DOMAIN index.doc_term_freq[i] \subseteq DOMAIN index.term_doc_freq

\* the document count of a term, 0 for a term that the map does not hold
DocumentCount(index, term) ==
    IF term \in DOMAIN index.term_doc_freq THEN index.term_doc_freq[term] ELSE 0

\* the terms of the i-th document
TermsOf(index, i) ==
    {index.documents[i].tokens[j] : j \in DOMAIN index.documents[i].tokens}

DocumentCountsStep(before, after) ==
    /\ Len(after.documents) = Len(before.documents)
          => after.term_doc_freq = before.term_doc_freq
    /\ \A term \in DOMAIN after.term_doc_freq :
          DocumentCount(after, term) =
              DocumentCount(before, term)
                  + Cardinality({i \in (Len(before.documents) + 1)..Len(after.documents) :
                                    term \in TermsOf(after, i)})
    /\ DOMAIN before.term_doc_freq \subseteq DOMAIN after.term_doc_freq

C25_DocumentCountsExact ==
    [](DocumentCountsExact(code_index.index))
        /\ [][DocumentCountsStep(code_index.index, code_index'.index)]_vars

\* a search on a corpus with a document that holds the term fn three times
C25_Witness ==
    /\ line.kind = "search"
    /\ \E i \in DOMAIN code_index.index.doc_term_freq :
          /\ "fn" \in DOMAIN code_index.index.doc_term_freq[i]
          /\ code_index.index.doc_term_freq[i]["fn"] = 3
    /\ code_index.index.term_doc_freq["fn"] = Len(code_index.index.documents)
    /\ Len(code_index.index.documents) = 2

(***************************************************************************)
(* C26: the idf cache is never stale: in every state reachable by any      *)
(* interleaving of add_document, compute_idf and search, each cached entry *)
(* for a term equals the idf that the corpus of the state defines, which   *)
(* is ln(total documents / document count) when the document count of the  *)
(* term is positive and 0 otherwise; this holds of entries cached as 0 for *)
(* terms that were absent and of entries whose idf changed only because    *)
(* the number of documents grew.                                           *)
(***************************************************************************)
\* the idf that the corpus defines, as Log has it
IdfOf(index, term) ==
    IF DocumentCount(index, term) > 0
    THEN Log(Len(index.documents), DocumentCount(index, term))
    ELSE 0

C26_IdfCacheFresh ==
    \A term \in DOMAIN code_index.index.idf_cache :
        code_index.index.idf_cache[term] = IdfOf(code_index.index, term)

\* with two documents: parse is cached as 0, being in no document, and fn is
\* cached with the idf of a term that one of the two documents holds, which
\* was 0 while the corpus held that document alone
C26_Witness ==
    /\ Len(code_index.index.documents) = 2
    /\ "parse" \in DOMAIN code_index.index.idf_cache
    /\ "parse" \notin DOMAIN code_index.index.term_doc_freq
    /\ code_index.index.idf_cache["parse"] = 0
    /\ "fn" \in DOMAIN code_index.index.idf_cache
    /\ code_index.index.term_doc_freq["fn"] = 1
    /\ code_index.index.idf_cache["fn"] = Log(2, 1)
    /\ Log(1, 1) = 0

(***************************************************************************)
(* C27: document vectors are computed from the corpus statistics of query  *)
(* time: after any interleaving of add_document, compute_idf and search,   *)
(* a search returns the documents, order and scores that a fresh index     *)
(* returns which received the same documents in the same order and no      *)
(* earlier query, and two identical searches with no add_document between  *)
(* them return identical results.                                          *)
(***************************************************************************)
\* a new index to which the first n documents are added in their order
RECURSIVE FreshIndex(_, _)
FreshIndex(documents, n) ==
    IF n = 0 THEN NewTfidfIndex
    ELSE add_document(FreshIndex(documents, n - 1), documents[n].id,
                      documents[n].text, documents[n].metadata)

FreshResults(index, query, top_k) ==
    TfidfIndex_search(FreshIndex(index.documents, Len(index.documents)),
                      JStr(query), JNum(top_k)).value

SearchedAsFresh ==
    /\ line'.kind = "search"
          => output' = FreshResults(code_index.index, line'.query, line'.top_k)
    /\ (/\ line'.kind = "search"
        /\ line.kind = "search"
        /\ line'.query = line.query
        /\ line'.top_k = line.top_k)
          => output' = output

C27_SearchAsFreshIndex ==
    [](\A query \in Queries :
          AllResults(code_index.index, query)
              = FreshResults(code_index.index, query, Len(code_index.index.documents)))
        /\ [][SearchedAsFresh]_vars

\* a search that returns a document while the cache holds idfs computed
\* before it, for the terms of another query
C27_Witness ==
    /\ line.kind = "search"
    /\ line.query = "parse_token"
    /\ Len(output) = 1
    /\ Len(code_index.index.documents) = 2
    /\ "render_frame" \in DOMAIN code_index.index.idf_cache
    /\ output = FreshResults(code_index.index, line.query, line.top_k)

(***************************************************************************)
(* C28: get_snippet always produces a single-line preview: for every text  *)
(* and every character budget the snippet it returns holds no line break,  *)
(* also when no line qualifies and the first max_length raw characters of  *)
(* the text are returned.                                                  *)
(***************************************************************************)
C28_SnippetSingleLine ==
    line.kind = "get_snippet" => ~Contains(output[1], "\n")

(***************************************************************************)
(* C29: a request that is answered with a handler-level error response     *)
(* (code -1) leaves the corpus as it was before the request: the document  *)
(* list, the document-count map, the set of indexed files and the document *)
(* counter are unchanged, also when build_index raises after some of its   *)
(* paths have been processed.                                              *)
(***************************************************************************)
C29_ErrorLeavesCorpus ==
    [][IsError(output', -1) => Corpus(code_index') = Corpus(code_index)]_vars

(***************************************************************************)
(* C30: tokenize is a pure function that returns, in their order, the      *)
(* lowercased maximal runs of word characters (letters, digits and the     *)
(* underscore) of the text, and the empty sequence for a text that is      *)
(* empty or holds separators only; tokenizing its tokens joined by single  *)
(* spaces yields the same tokens; it reads and writes no index state.      *)
(***************************************************************************)
\* the positions at which a maximal run of word characters of s starts
RunStarts(s) ==
    {i \in 1..Len(s) : /\ IsWordChar(CharAt(s, i))
                       /\ (i = 1 \/ ~IsWordChar(CharAt(s, i - 1)))}

\* the position at which the run that starts at i ends
RunEnd(s, i) ==
    CHOOSE j \in i..Len(s) :
        /\ \A k \in i..j : IsWordChar(CharAt(s, k))
        /\ (j = Len(s) \/ ~IsWordChar(CharAt(s, j + 1)))

\* the k-th smallest position of starts
NthStart(starts, k) ==
    CHOOSE i \in starts : Cardinality({j \in starts : j < i}) = k - 1

\* the text with each letter replaced by its lowercase letter
Lowered(s) ==
    [i \in 1..Len(s) |->
        IF \E n \in 1..26 : CharAt(UpperAlphabet, n) = CharAt(s, i)
        THEN CharAt(LowerAlphabet,
                    CHOOSE n \in 1..26 : CharAt(UpperAlphabet, n) = CharAt(s, i))
        ELSE CharAt(s, i)]

\* the runs of word characters of the lowercased text, in their order
LoweredRuns(s) ==
    [k \in 1..Cardinality(RunStarts(s)) |->
        [i \in 1..(RunEnd(s, NthStart(RunStarts(s), k)) - NthStart(RunStarts(s), k) + 1) |->
            Lowered(s)[NthStart(RunStarts(s), k) + i - 1]]]

\* the characters of a string, one by one
Characters(s) == [i \in 1..Len(s) |-> CharAt(s, i)]

====
